---- MODULE Spec2Model ----
(***************************************************************************)
(* Tool dispatch runtime of the SiYuan MCP server: the startup sequence    *)
(* of SiyuanMCPServer (handler registration, request-handler wiring), the  *)
(* four protocol request handlers and the result / error normalisation of  *)
(* the call-tool handler.                                                  *)
(*                                                                         *)
(* Text is modelled as a sequence of one-character strings, so that        *)
(* template literals, JSON.stringify and JSON.parse are computed and not   *)
(* assumed.  A JavaScript value is a record [t |-> tag, v |-> payload].    *)
(***************************************************************************)
EXTENDS Integers, Sequences, FiniteSets, TLC

----------------------------------------------------------------------------
(* Bounds of the model *)

MaxHandlers == 2
MaxRequests == 2

----------------------------------------------------------------------------
(* JavaScript values *)

Undefined == [t |-> "undefined", v |-> <<>>]
Null == [t |-> "null", v |-> <<>>]
Bool(b) == [t |-> "boolean", v |-> b]
Num(n) == [t |-> "number", v |-> n]
Str(s) == [t |-> "string", v |-> s]
Arr(items) == [t |-> "array", v |-> items]
\* an object is its own properties in insertion order
Obj(props) == [t |-> "object", v |-> props]
Prop(k, val) == [k |-> k, val |-> val]
\* an Error object carrying a message
Err(m) == [t |-> "error", v |-> m]

\* typeof x === 'string'
IsString(x) == x.t = "string"

\* !!x for the values handlers test for truthiness
Truthy(x) ==
  CASE x.t = "undefined" -> FALSE
    [] x.t = "null" -> FALSE
    [] x.t = "boolean" -> x.v
    [] x.t = "number" -> x.v # 0
    [] x.t = "string" -> x.v # <<>>
    [] OTHER -> TRUE

\* obj.key : the value of the last property named key, undefined when absent
Get(obj, key) ==
  IF obj.t # "object" THEN Undefined
  ELSE LET idx == {i \in 1..Len(obj.v) : obj.v[i].k = key}
       IN IF idx = {} THEN Undefined
          ELSE obj.v[CHOOSE i \in idx : \A j \in idx : j <= i].val

----------------------------------------------------------------------------
(* Text constants of the sources *)

SuccessText == <<"S","u","c","c","e","s","s">>
ErrorPrefix == <<"E","r","r","o","r",":"," ">>
UnknownToolPrefix == <<"U","n","k","n","o","w","n"," ","t","o","o","l",":"," ">>
UnknownPromptPrefix == <<"U","n","k","n","o","w","n"," ","p","r","o","m","p","t",":"," ">>

----------------------------------------------------------------------------
(* JSON.stringify(value, null, 2) *)

Digit(d) == <<"0","1","2","3","4","5","6","7","8","9">>[d + 1]

RECURSIVE NatText(_)
NatText(n) == IF n < 10 THEN <<Digit(n)>> ELSE NatText(n \div 10) \o <<Digit(n % 10)>>

NumText(n) == IF n < 0 THEN <<"-">> \o NatText(0 - n) ELSE NatText(n)

RECURSIVE Escape(_)
Escape(s) ==
  IF s = <<>> THEN <<>>
  ELSE (CASE Head(s) = "\"" -> <<"\\", "\"">>
          [] Head(s) = "\\" -> <<"\\", "\\">>
          [] Head(s) = "\n" -> <<"\\", "n">>
          [] OTHER -> <<Head(s)>>) \o Escape(Tail(s))

Quote(s) == <<"\"">> \o Escape(s) \o <<"\"">>

RECURSIVE Pad(_)
Pad(n) == IF n <= 0 THEN <<>> ELSE <<" ">> \o Pad(n - 1)

\* properties whose value is undefined are left out of the output
RECURSIVE Serializable(_)
Serializable(props) ==
  IF props = <<>> THEN <<>>
  ELSE IF Head(props).val.t = "undefined" THEN Serializable(Tail(props))
       ELSE <<Head(props)>> \o Serializable(Tail(props))

RECURSIVE Stringify(_, _), StringifyItems(_, _), StringifyProps(_, _)
Stringify(x, ind) ==
  CASE x.t = "null" -> <<"n","u","l","l">>
    [] x.t = "undefined" -> <<"n","u","l","l">>   \* only reached for array items
    [] x.t = "boolean" -> IF x.v THEN <<"t","r","u","e">> ELSE <<"f","a","l","s","e">>
    [] x.t = "number" -> NumText(x.v)
    [] x.t = "string" -> Quote(x.v)
    [] x.t = "array" ->
         IF x.v = <<>> THEN <<"[", "]">>
         ELSE <<"[", "\n">> \o StringifyItems(x.v, ind + 2) \o <<"\n">> \o Pad(ind) \o <<"]">>
    [] x.t = "object" ->
         LET props == Serializable(x.v)
         IN IF props = <<>> THEN <<"{", "}">>
            ELSE <<"{", "\n">> \o StringifyProps(props, ind + 2) \o <<"\n">> \o Pad(ind) \o <<"}">>

StringifyItems(items, ind) ==
  Pad(ind) \o Stringify(Head(items), ind) \o
  (IF Len(items) = 1 THEN <<>> ELSE <<",", "\n">> \o StringifyItems(Tail(items), ind))

StringifyProps(props, ind) ==
  Pad(ind) \o Quote(Head(props).k) \o <<":", " ">> \o Stringify(Head(props).val, ind) \o
  (IF Len(props) = 1 THEN <<>> ELSE <<",", "\n">> \o StringifyProps(Tail(props), ind))

JSONStringify(x) == Stringify(x, 0)

----------------------------------------------------------------------------
(* JSON.parse(text): [ok, val, next]; ok = FALSE stands for a SyntaxError *)

Fail == [ok |-> FALSE, val |-> Undefined, next |-> 0]
Ok(val, next) == [ok |-> TRUE, val |-> val, next |-> next]

IsSpace(c) == c \in {" ", "\n"}
IsDigit(c) == c \in {"0","1","2","3","4","5","6","7","8","9"}
DigitValue(c) == CHOOSE d \in 0..9 : Digit(d) = c

RECURSIVE SkipSpace(_, _)
SkipSpace(s, i) == IF i <= Len(s) /\ IsSpace(s[i]) THEN SkipSpace(s, i + 1) ELSE i

HasAt(s, i, lit) ==
  /\ i + Len(lit) - 1 <= Len(s)
  /\ \A j \in 1..Len(lit) : s[i + j - 1] = lit[j]

RECURSIVE ParseDigits(_, _, _)
ParseDigits(s, i, acc) ==
  IF i <= Len(s) /\ IsDigit(s[i]) THEN ParseDigits(s, i + 1, acc * 10 + DigitValue(s[i]))
  ELSE Ok(Num(acc), i)

ParseNumber(s, i) ==
  IF s[i] = "-"
    THEN IF i + 1 <= Len(s) /\ IsDigit(s[i + 1])
           THEN LET r == ParseDigits(s, i + 1, 0) IN Ok(Num(0 - r.val.v), r.next)
           ELSE Fail
    ELSE IF s[i] = "0" /\ i + 1 <= Len(s) /\ IsDigit(s[i + 1]) THEN Fail
    ELSE ParseDigits(s, i, 0)

\* i is the position after the opening quote
RECURSIVE ParseChars(_, _, _)
ParseChars(s, i, acc) ==
  IF i > Len(s) THEN Fail
  ELSE IF s[i] = "\"" THEN Ok(Str(acc), i + 1)
  ELSE IF s[i] = "\n" THEN Fail
  ELSE IF s[i] = "\\"
    THEN IF i + 1 > Len(s) THEN Fail
         ELSE IF s[i + 1] = "n" THEN ParseChars(s, i + 2, Append(acc, "\n"))
         ELSE IF s[i + 1] \in {"\"", "\\"} THEN ParseChars(s, i + 2, Append(acc, s[i + 1]))
         ELSE Fail
  ELSE ParseChars(s, i + 1, Append(acc, s[i]))

RECURSIVE ParseValue(_, _), ParseItems(_, _, _), ParseMembers(_, _, _)
ParseValue(s, i0) ==
  LET i == SkipSpace(s, i0)
  IN IF i > Len(s) THEN Fail
     ELSE IF HasAt(s, i, <<"n","u","l","l">>) THEN Ok(Null, i + 4)
     ELSE IF HasAt(s, i, <<"t","r","u","e">>) THEN Ok(Bool(TRUE), i + 4)
     ELSE IF HasAt(s, i, <<"f","a","l","s","e">>) THEN Ok(Bool(FALSE), i + 5)
     ELSE IF s[i] = "\"" THEN ParseChars(s, i + 1, <<>>)
     ELSE IF IsDigit(s[i]) \/ s[i] = "-" THEN ParseNumber(s, i)
     ELSE IF s[i] = "["
       THEN LET j == SkipSpace(s, i + 1)
            IN IF j <= Len(s) /\ s[j] = "]" THEN Ok(Arr(<<>>), j + 1)
               ELSE ParseItems(s, j, <<>>)
     ELSE IF s[i] = "{"
       THEN LET j == SkipSpace(s, i + 1)
            IN IF j <= Len(s) /\ s[j] = "}" THEN Ok(Obj(<<>>), j + 1)
               ELSE ParseMembers(s, j, <<>>)
     ELSE Fail

ParseItems(s, i, acc) ==
  LET r == ParseValue(s, i)
  IN IF ~r.ok THEN Fail
     ELSE LET j == SkipSpace(s, r.next)
          IN IF j > Len(s) THEN Fail
             ELSE IF s[j] = "," THEN ParseItems(s, j + 1, Append(acc, r.val))
             ELSE IF s[j] = "]" THEN Ok(Arr(Append(acc, r.val)), j + 1)
             ELSE Fail

ParseMembers(s, i0, acc) ==
  LET i == SkipSpace(s, i0)
  IN IF i > Len(s) \/ s[i] # "\"" THEN Fail
     ELSE LET k == ParseChars(s, i + 1, <<>>)
          IN IF ~k.ok THEN Fail
             ELSE LET c == SkipSpace(s, k.next)
                  IN IF c > Len(s) \/ s[c] # ":" THEN Fail
                     ELSE LET r == ParseValue(s, c + 1)
                          IN IF ~r.ok THEN Fail
                             ELSE LET j == SkipSpace(s, r.next)
                                      props == Append(acc, Prop(k.val.v, r.val))
                                  IN IF j > Len(s) THEN Fail
                                     ELSE IF s[j] = "," THEN ParseMembers(s, j + 1, props)
                                     ELSE IF s[j] = "}" THEN Ok(Obj(props), j + 1)
                                     ELSE Fail

\* the whole text must be one value, surrounded by white space only
JSONParse(s) ==
  LET r == ParseValue(s, 1)
  IN IF r.ok /\ SkipSpace(s, r.next) = Len(s) + 1 THEN r ELSE Fail

----------------------------------------------------------------------------
(* Tool handlers *)

CreateNotebookName == <<"c","r","e","a","t","e","_","n","o","t","e","b","o","o","k">>
MoveDocumentsName == <<"m","o","v","e","_","d","o","c","u","m","e","n","t","s">>
UpdateBlockName == <<"u","p","d","a","t","e","_","b","l","o","c","k">>

FromIdsTypeError == <<"f","r","o","m","_","i","d","s"," ","m","u","s","t"," ","b","e"," ","a"," ","s","t","r","i","n","g"," ","o","r"," ","a","r","r","a","y"," ","o","f"," ","s","t","r","i","n","g","s">>
MustProvideOneDestination == <<"M","u","s","t"," ","p","r","o","v","i","d","e"," ","e","x","a","c","t","l","y"," ","o","n","e"," ","o","f",":"," ","t","o","_","p","a","r","e","n","t","_","i","d"," ","(","f","o","r"," ","n","e","s","t","e","d"," ","p","l","a","c","e","m","e","n","t",")"," ","o","r"," ","t","o","_","n","o","t","e","b","o","o","k","_","r","o","o","t"," ","(","f","o","r"," ","r","o","o","t"," ","p","l","a","c","e","m","e","n","t",")">>
CannotProvideBoth == <<"C","a","n","n","o","t"," ","p","r","o","v","i","d","e"," ","b","o","t","h"," ","t","o","_","p","a","r","e","n","t","_","i","d"," ","a","n","d"," ","t","o","_","n","o","t","e","b","o","o","k","_","r","o","o","t"," ","-"," ","c","h","o","o","s","e"," ","o","n","l","y"," ","o","n","e"," ","t","a","r","g","e","t"," ","l","o","c","a","t","i","o","n">>
FailedToUpdateBlock == <<"F","a","i","l","e","d"," ","t","o"," ","u","p","d","a","t","e"," ","b","l","o","c","k",":"," ">>

\* the handler instances createAllHandlers can hand to the registry; instance
\* 4 is a second "new CreateNotebookHandler()"
CreateNotebookHandler(id) ==
  [id |-> id, cls |-> "CreateNotebookHandler", name |-> CreateNotebookName,
   description |-> "Create a new notebook in SiYuan with the specified name",
   inputSchema |-> "{name: string; required: [name]}"]
MoveDocumentsHandler(id) ==
  [id |-> id, cls |-> "MoveDocumentsHandler", name |-> MoveDocumentsName,
   description |-> "Move one or more notes to a new location in SiYuan",
   inputSchema |-> "{from_ids: array, to_parent_id: string, to_notebook_root: string; required: [from_ids]}"]
UpdateBlockHandler(id) ==
  [id |-> id, cls |-> "UpdateBlockHandler", name |-> UpdateBlockName,
   description |-> "Update the content of a single block by its ID",
   inputSchema |-> "{block_id: string, content: string; required: [block_id, content]}"]

CreateSnapshotName == <<"c","r","e","a","t","e","_","s","n","a","p","s","h","o","t">>
AppendBlockName == <<"a","p","p","e","n","d","_","b","l","o","c","k">>
InsertBlockName == <<"i","n","s","e","r","t","_","b","l","o","c","k">>
MoveBlockName == <<"m","o","v","e","_","b","l","o","c","k">>
SetBlockAttrsName == <<"s","e","t","_","b","l","o","c","k","_","a","t","t","r","s">>

\* the character U+2014 of the source text
EmDash == "U+2014"

AutoSnapshot == <<"A","u","t","o"," ","s","n","a","p","s","h","o","t">>
SnapshotCreatedPrefix == <<"S","n","a","p","s","h","o","t"," ","c","r","e","a","t","e","d"," ","s","u","c","c","e","s","s","f","u","l","l","y"," ","w","i","t","h"," ","m","e","m","o",":"," ","\"">>
FailedToAppendBlock == <<"F","a","i","l","e","d"," ","t","o"," ","a","p","p","e","n","d"," ","b","l","o","c","k",":"," ">>
FailedToInsertBlock == <<"F","a","i","l","e","d"," ","t","o"," ","i","n","s","e","r","t"," ","b","l","o","c","k",":"," ">>
FailedToMoveBlock == <<"F","a","i","l","e","d"," ","t","o"," ","m","o","v","e"," ","b","l","o","c","k",":"," ">>
FailedToSetBlockAttrs == <<"F","a","i","l","e","d"," ","t","o"," ","s","e","t"," ","b","l","o","c","k"," ","a","t","t","r","s",":"," ">>
MustProvideBeforeOrAfter == <<"M","u","s","t"," ","p","r","o","v","i","d","e"," ","e","x","a","c","t","l","y"," ","o","n","e"," ","o","f",":"," ","b","e","f","o","r","e","_","i","d"," ","o","r"," ","a","f","t","e","r","_","i","d">>
CannotProvideBeforeAndAfter == <<"C","a","n","n","o","t"," ","p","r","o","v","i","d","e"," ","b","o","t","h"," ","b","e","f","o","r","e","_","i","d"," ","a","n","d"," ","a","f","t","e","r","_","i","d"," ",EmDash," ","c","h","o","o","s","e"," ","o","n","l","y"," ","o","n","e">>
MustProvidePreviousOrParent == <<"M","u","s","t"," ","p","r","o","v","i","d","e"," ","a","t"," ","l","e","a","s","t"," ","o","n","e"," ","o","f",":"," ","p","r","e","v","i","o","u","s","_","i","d"," ","o","r"," ","p","a","r","e","n","t","_","i","d">>

CreateSnapshotHandler(id) ==
  [id |-> id, cls |-> "CreateSnapshotHandler", name |-> CreateSnapshotName,
   description |-> "Create a snapshot to backup all notes in SiYuan workspace. Essential before bulk operations to enable rollback if needed",
   inputSchema |-> "{memo: string}"]
AppendBlockHandler(id) ==
  [id |-> id, cls |-> "AppendBlockHandler", name |-> AppendBlockName,
   description |-> "Append a new child block at the end of a parent block.",
   inputSchema |-> "{parent_id: string, content: string; required: [parent_id, content]}"]
InsertBlockHandler(id) ==
  [id |-> id, cls |-> "InsertBlockHandler", name |-> InsertBlockName,
   description |-> "Insert a new block before or after an existing block. Provide exactly one of before_id or after_id to control placement.",
   inputSchema |-> "{content: string, before_id: string, after_id: string; required: [content]}"]
MoveBlockHandler(id) ==
  [id |-> id, cls |-> "MoveBlockHandler", name |-> MoveBlockName,
   description |-> "Move a block to a new position.",
   inputSchema |-> "{block_id: string, previous_id: string, parent_id: string; required: [block_id]}"]
SetBlockAttrsHandler(id) ==
  [id |-> id, cls |-> "SetBlockAttrsHandler", name |-> SetBlockAttrsName,
   description |-> "Set attributes on a block by its ID.",
   inputSchema |-> "{block_id: string, attrs: object; required: [block_id, attrs]}"]

GetDocumentContentName == <<"g","e","t","_","d","o","c","u","m","e","n","t","_","c","o","n","t","e","n","t">>

GetDocumentContentHandler(id) ==
  [id |-> id, cls |-> "GetDocumentContentHandler", name |-> GetDocumentContentName,
   description |-> "Read the markdown content of a note in SiYuan. Returns the full note content in markdown format, with optional pagination support",
   inputSchema |-> "{document_id: string, offset: number, limit: number; required: [document_id]}"]

SetDailyNoteFormatName == <<"s","e","t","_","d","a","i","l","y","_","n","o","t","e","_","f","o","r","m","a","t">>
DailyNoteFormatUpdated == <<"D","a","i","l","y"," ","n","o","t","e"," ","f","o","r","m","a","t"," ","u","p","d","a","t","e","d"," ","t","o",":"," ">>

\* the description is its first sentence; the table of format tokens that
\* follows it in the source is left out
SetDailyNoteFormatHandler(id) ==
  [id |-> id, cls |-> "SetDailyNoteFormatHandler", name |-> SetDailyNoteFormatName,
   description |-> "Configure the folder structure and file naming format for daily notes in a SiYuan notebook. Uses Go time format via Sprig templates.",
   inputSchema |-> "{notebook_id: string, path_template: string; required: [notebook_id, path_template]}"]

\* an instance of a handler class of which the model keeps the name only:
\* its description, input schema and execute are left out
Handler(id, cls, name) ==
  [id |-> id, cls |-> cls, name |-> name, description |-> "", inputSchema |-> ""]

\* mutant: ReplaceTagHandler carries the name of ListAllTagsHandler
createAllHandlers_TagNameTwice ==
  <<Handler(12, "UnifiedSearchHandler", <<"u","n","i","f","i","e","d","_","s","e","a","r","c","h">>),
    Handler(13, "ExecuteSqlHandler", <<"e","x","e","c","u","t","e","_","s","q","l">>),
    Handler(14, "FindBlockInDocumentHandler", <<"f","i","n","d","_","b","l","o","c","k","_","i","n","_","d","o","c","u","m","e","n","t">>),
    GetDocumentContentHandler(10),
    Handler(15, "CreateDocumentHandler", <<"c","r","e","a","t","e","_","d","o","c","u","m","e","n","t">>),
    Handler(16, "AppendToDocumentHandler", <<"a","p","p","e","n","d","_","t","o","_","d","o","c","u","m","e","n","t">>),
    Handler(17, "UpdateDocumentHandler", <<"u","p","d","a","t","e","_","d","o","c","u","m","e","n","t">>),
    Handler(18, "AppendToDailyNoteHandler", <<"a","p","p","e","n","d","_","t","o","_","d","a","i","l","y","_","n","o","t","e">>),
    MoveDocumentsHandler(2),
    Handler(19, "GetDocumentTreeHandler", <<"g","e","t","_","d","o","c","u","m","e","n","t","_","t","r","e","e">>),
    Handler(20, "RenameDocumentHandler", <<"r","e","n","a","m","e","_","d","o","c","u","m","e","n","t">>),
    Handler(21, "RemoveDocumentHandler", <<"r","e","m","o","v","e","_","d","o","c","u","m","e","n","t">>),
    Handler(22, "GetHPathByIdHandler", <<"g","e","t","_","h","p","a","t","h","_","b","y","_","i","d">>),
    Handler(23, "GetBlockHandler", <<"g","e","t","_","b","l","o","c","k">>),
    UpdateBlockHandler(3),
    AppendBlockHandler(6),
    InsertBlockHandler(7),
    MoveBlockHandler(8),
    Handler(24, "GetChildBlocksHandler", <<"g","e","t","_","c","h","i","l","d","_","b","l","o","c","k","s">>),
    Handler(25, "GetSectionContentHandler", <<"g","e","t","_","s","e","c","t","i","o","n","_","c","o","n","t","e","n","t">>),
    Handler(26, "GetDocumentForBlockHandler", <<"g","e","t","_","d","o","c","u","m","e","n","t","_","f","o","r","_","b","l","o","c","k">>),
    Handler(27, "GetBlockAttrsHandler", <<"g","e","t","_","b","l","o","c","k","_","a","t","t","r","s">>),
    SetBlockAttrsHandler(9),
    Handler(28, "ListNotebooksHandler", <<"l","i","s","t","_","n","o","t","e","b","o","o","k","s">>),
    Handler(29, "GetRecentlyUpdatedDocumentsHandler", <<"g","e","t","_","r","e","c","e","n","t","l","y","_","u","p","d","a","t","e","d","_","d","o","c","u","m","e","n","t","s">>),
    CreateNotebookHandler(1),
    SetDailyNoteFormatHandler(11),
    CreateSnapshotHandler(5),
    Handler(30, "ListSnapshotsHandler", <<"l","i","s","t","_","s","n","a","p","s","h","o","t","s">>),
    Handler(31, "RollbackSnapshotHandler", <<"r","o","l","l","b","a","c","k","_","t","o","_","s","n","a","p","s","h","o","t">>),
    Handler(32, "ListAllTagsHandler", <<"l","i","s","t","_","a","l","l","_","t","a","g","s">>),
    Handler(33, "ReplaceTagHandler", <<"l","i","s","t","_","a","l","l","_","t","a","g","s">>)>>

\* the list createAllHandlers returns, in its order. The classes
\* GetSectionContentHandler, GetDocumentForBlockHandler, ListAllTagsHandler
\* and ReplaceTagHandler have the names the server's instructions give their
\* tools.
createAllHandlers ==
  <<Handler(12, "UnifiedSearchHandler", <<"u","n","i","f","i","e","d","_","s","e","a","r","c","h">>),
    Handler(13, "ExecuteSqlHandler", <<"e","x","e","c","u","t","e","_","s","q","l">>),
    Handler(14, "FindBlockInDocumentHandler", <<"f","i","n","d","_","b","l","o","c","k","_","i","n","_","d","o","c","u","m","e","n","t">>),
    GetDocumentContentHandler(10),
    Handler(15, "CreateDocumentHandler", <<"c","r","e","a","t","e","_","d","o","c","u","m","e","n","t">>),
    Handler(16, "AppendToDocumentHandler", <<"a","p","p","e","n","d","_","t","o","_","d","o","c","u","m","e","n","t">>),
    Handler(17, "UpdateDocumentHandler", <<"u","p","d","a","t","e","_","d","o","c","u","m","e","n","t">>),
    Handler(18, "AppendToDailyNoteHandler", <<"a","p","p","e","n","d","_","t","o","_","d","a","i","l","y","_","n","o","t","e">>),
    MoveDocumentsHandler(2),
    Handler(19, "GetDocumentTreeHandler", <<"g","e","t","_","d","o","c","u","m","e","n","t","_","t","r","e","e">>),
    Handler(20, "RenameDocumentHandler", <<"r","e","n","a","m","e","_","d","o","c","u","m","e","n","t">>),
    Handler(21, "RemoveDocumentHandler", <<"r","e","m","o","v","e","_","d","o","c","u","m","e","n","t">>),
    Handler(22, "GetHPathByIdHandler", <<"g","e","t","_","h","p","a","t","h","_","b","y","_","i","d">>),
    Handler(23, "GetBlockHandler", <<"g","e","t","_","b","l","o","c","k">>),
    UpdateBlockHandler(3),
    AppendBlockHandler(6),
    InsertBlockHandler(7),
    MoveBlockHandler(8),
    Handler(24, "GetChildBlocksHandler", <<"g","e","t","_","c","h","i","l","d","_","b","l","o","c","k","s">>),
    Handler(25, "GetSectionContentHandler", <<"g","e","t","_","s","e","c","t","i","o","n","_","c","o","n","t","e","n","t">>),
    Handler(26, "GetDocumentForBlockHandler", <<"g","e","t","_","d","o","c","u","m","e","n","t","_","f","o","r","_","b","l","o","c","k">>),
    Handler(27, "GetBlockAttrsHandler", <<"g","e","t","_","b","l","o","c","k","_","a","t","t","r","s">>),
    SetBlockAttrsHandler(9),
    Handler(28, "ListNotebooksHandler", <<"l","i","s","t","_","n","o","t","e","b","o","o","k","s">>),
    Handler(29, "GetRecentlyUpdatedDocumentsHandler", <<"g","e","t","_","r","e","c","e","n","t","l","y","_","u","p","d","a","t","e","d","_","d","o","c","u","m","e","n","t","s">>),
    CreateNotebookHandler(1),
    SetDailyNoteFormatHandler(11),
    CreateSnapshotHandler(5),
    Handler(30, "ListSnapshotsHandler", <<"l","i","s","t","_","s","n","a","p","s","h","o","t","s">>),
    Handler(31, "RollbackSnapshotHandler", <<"r","o","l","l","b","a","c","k","_","t","o","_","s","n","a","p","s","h","o","t">>),
    Handler(32, "ListAllTagsHandler", <<"l","i","s","t","_","a","l","l","_","t","a","g","s">>),
    Handler(33, "ReplaceTagHandler", <<"b","a","t","c","h","_","r","e","p","l","a","c","e","_","t","a","g">>)>>

HandlerPool ==
  <<CreateNotebookHandler(1), MoveDocumentsHandler(2), UpdateBlockHandler(3),
    CreateNotebookHandler(4)>>

----------------------------------------------------------------------------
(* handler.execute, split at its await of the workspace client *)

Resolve(value) == [kind |-> "resolve", value |-> value]
Reject(error) == [kind |-> "reject", error |-> error]
Await(method, params) == [kind |-> "await", method |-> method, params |-> params]

\* MoveDocumentsHandler: from_ids as an array
NormaliseFromIds(fromIds) ==
  IF fromIds.t = "array" THEN Resolve(fromIds)
  ELSE IF IsString(fromIds)
    THEN IF fromIds.v # <<>> /\ Head(fromIds.v) = "["
           THEN LET parsed == JSONParse(fromIds.v)
                IN IF parsed.ok THEN Resolve(parsed.val) ELSE Resolve(Arr(<<fromIds>>))
           ELSE Resolve(Arr(<<fromIds>>))
  ELSE Reject(Err(FromIdsTypeError))

\* mutant: two destinations are not refused, the parent wins
MoveDocumentsStart_NoBothCheck(args) ==
  LET fromIds == NormaliseFromIds(Get(args, <<"f","r","o","m","_","i","d","s">>))
      hasParentId == Truthy(Get(args, <<"t","o","_","p","a","r","e","n","t","_","i","d">>))
      hasNotebookRoot == Truthy(Get(args, <<"t","o","_","n","o","t","e","b","o","o","k","_","r","o","o","t">>))
  IN IF fromIds.kind = "reject" THEN fromIds
     ELSE IF ~hasParentId /\ ~hasNotebookRoot THEN Reject(Err(MustProvideOneDestination))
     ELSE IF hasParentId
       THEN Await("document.moveDocumentsByIds", <<fromIds.value, Get(args, <<"t","o","_","p","a","r","e","n","t","_","i","d">>)>>)
       ELSE Await("document.moveDocumentsToNotebookRoot",
                  <<fromIds.value, Get(args, <<"t","o","_","n","o","t","e","b","o","o","k","_","r","o","o","t">>)>>)

MoveDocumentsStart(args) ==
  LET fromIds == NormaliseFromIds(Get(args, <<"f","r","o","m","_","i","d","s">>))
      hasParentId == Truthy(Get(args, <<"t","o","_","p","a","r","e","n","t","_","i","d">>))
      hasNotebookRoot == Truthy(Get(args, <<"t","o","_","n","o","t","e","b","o","o","k","_","r","o","o","t">>))
  IN IF fromIds.kind = "reject" THEN fromIds
     ELSE IF ~hasParentId /\ ~hasNotebookRoot THEN Reject(Err(MustProvideOneDestination))
     ELSE IF hasParentId /\ hasNotebookRoot THEN Reject(Err(CannotProvideBoth))
     ELSE IF hasParentId
       THEN Await("document.moveDocumentsByIds", <<fromIds.value, Get(args, <<"t","o","_","p","a","r","e","n","t","_","i","d">>)>>)
       ELSE Await("document.moveDocumentsToNotebookRoot",
                  <<fromIds.value, Get(args, <<"t","o","_","n","o","t","e","b","o","o","k","_","r","o","o","t">>)>>)

MoveDocumentsResult(args, fromIds) ==
  Obj(<<Prop(<<"s","u","c","c","e","s","s">>, Bool(TRUE)),
        Prop(<<"m","o","v","e","d","_","c","o","u","n","t">>, Num(Len(fromIds.v))),
        Prop(<<"f","r","o","m","_","i","d","s">>, fromIds),
        Prop(<<"t","o","_","p","a","r","e","n","t","_","i","d">>, Get(args, <<"t","o","_","p","a","r","e","n","t","_","i","d">>)),
        Prop(<<"t","o","_","n","o","t","e","b","o","o","k","_","r","o","o","t">>, Get(args, <<"t","o","_","n","o","t","e","b","o","o","k","_","r","o","o","t">>))>>)

\* SiyuanBlockApi.updateBlock after client.request has resolved to response
UpdateBlock(response) ==
  IF Get(response, <<"c","o","d","e">>) # Num(0)
    THEN Reject(Err(FailedToUpdateBlock \o Get(response, <<"m","s","g">>).v))
    ELSE Resolve(Undefined)

UpdateBlockResult(args) ==
  Obj(<<Prop(<<"s","u","c","c","e","s","s">>, Bool(TRUE)), Prop(<<"b","l","o","c","k","_","i","d">>, Get(args, <<"b","l","o","c","k","_","i","d">>))>>)

\* x[key] as JavaScript reads it: a TypeError on null and undefined
CannotRead(x, key) ==
  Err(<<"C","a","n","n","o","t"," ","r","e","a","d"," ","p","r","o","p","e","r","t","i","e","s"," ","o","f"," ">> \o (IF x.t = "null" THEN <<"n","u","l","l">> ELSE <<"u","n","d","e","f","i","n","e","d">>)
      \o <<" ","(","r","e","a","d","i","n","g"," ","'">> \o key \o <<"'",")">>)

Member(x, key) ==
  IF x.t \in {"undefined", "null"} THEN Reject(CannotRead(x, key))
  ELSE IF x.t = "object" THEN Resolve(Get(x, key))
  ELSE IF x.t \in {"array", "string"} /\ key = <<"0">> /\ x.v # <<>>
    THEN Resolve(IF x.t = "array" THEN x.v[1] ELSE Str(<<x.v[1]>>))
  ELSE Resolve(Undefined)

\* response.data[0].doOperations[0].id
FirstOperationId(response) ==
  LET first == Member(Get(response, <<"d","a","t","a">>), <<"0">>)
  IN IF first.kind = "reject" THEN first
     ELSE LET operations == Member(first.value, <<"d","o","O","p","e","r","a","t","i","o","n","s">>)
          IN IF operations.kind = "reject" THEN operations
             ELSE LET operation == Member(operations.value, <<"0">>)
                  IN IF operation.kind = "reject" THEN operation
                     ELSE Member(operation.value, <<"i","d">>)

\* SiyuanBlockApi.appendBlock after client.request has resolved to response
AppendBlock(response) ==
  IF Get(response, <<"c","o","d","e">>) # Num(0)
    THEN Reject(Err(FailedToAppendBlock \o Get(response, <<"m","s","g">>).v))
    ELSE FirstOperationId(response)

\* SiyuanBlockApi.insertBlockBefore and insertBlockAfter, after client.request
\* has resolved to response
InsertBlock(response) ==
  IF Get(response, <<"c","o","d","e">>) # Num(0)
    THEN Reject(Err(FailedToInsertBlock \o Get(response, <<"m","s","g">>).v))
    ELSE FirstOperationId(response)

\* mutant: the response code of the move is not looked at
MoveBlock_IgnoresCode(response) == Resolve(Undefined)

\* SiyuanBlockApi.moveBlock after client.request has resolved to response
MoveBlock(response) ==
  IF Get(response, <<"c","o","d","e">>) # Num(0)
    THEN Reject(Err(FailedToMoveBlock \o Get(response, <<"m","s","g">>).v))
    ELSE Resolve(Undefined)

\* mutant: the response code is not looked at
SetBlockAttrs_IgnoresCode(response) == Resolve(Undefined)

\* SiyuanBlockApi.setBlockAttrs after client.request has resolved to response
SetBlockAttrs(response) ==
  IF Get(response, <<"c","o","d","e">>) # Num(0)
    THEN Reject(Err(FailedToSetBlockAttrs \o Get(response, <<"m","s","g">>).v))
    ELSE Resolve(Undefined)

\* { success: true, block_id: args.block_id }
MoveBlockResult(args) ==
  Obj(<<Prop(<<"s","u","c","c","e","s","s">>, Bool(TRUE)), Prop(<<"b","l","o","c","k","_","i","d">>, Get(args, <<"b","l","o","c","k","_","i","d">>))>>)
SetBlockAttrsResult(args) ==
  Obj(<<Prop(<<"s","u","c","c","e","s","s">>, Bool(TRUE)), Prop(<<"b","l","o","c","k","_","i","d">>, Get(args, <<"b","l","o","c","k","_","i","d">>))>>)

\* { block_id: blockId }
NewBlockResult(blockId) == Obj(<<Prop(<<"b","l","o","c","k","_","i","d">>, blockId)>>)

\* the request bodies of SiyuanBlockApi
AppendBlockRequest(parentId, content) ==
  Obj(<<Prop(<<"p","a","r","e","n","t","I","D">>, parentId), Prop(<<"d","a","t","a","T","y","p","e">>, Str(<<"m","a","r","k","d","o","w","n">>)),
        Prop(<<"d","a","t","a">>, content)>>)
InsertBlockBeforeRequest(previousId, content) ==
  Obj(<<Prop(<<"p","r","e","v","i","o","u","s","I","D">>, previousId), Prop(<<"d","a","t","a","T","y","p","e">>, Str(<<"m","a","r","k","d","o","w","n">>)),
        Prop(<<"d","a","t","a">>, content)>>)
InsertBlockAfterRequest(nextId, content) ==
  Obj(<<Prop(<<"n","e","x","t","I","D">>, nextId), Prop(<<"d","a","t","a","T","y","p","e">>, Str(<<"m","a","r","k","d","o","w","n">>)),
        Prop(<<"d","a","t","a">>, content)>>)
MoveBlockRequest(blockId, previousId, parentId) ==
  Obj(<<Prop(<<"i","d">>, blockId), Prop(<<"p","r","e","v","i","o","u","s","I","D">>, previousId),
        Prop(<<"p","a","r","e","n","t","I","D">>, parentId)>>)
SetBlockAttrsRequest(blockId, attrs) ==
  Obj(<<Prop(<<"i","d">>, blockId), Prop(<<"a","t","t","r","s">>, attrs)>>)

\* mutant: two reference blocks are not refused, before_id wins
InsertBlockStart_NoBothCheck(args) ==
  LET hasBefore == Truthy(Get(args, <<"b","e","f","o","r","e","_","i","d">>))
      hasAfter == Truthy(Get(args, <<"a","f","t","e","r","_","i","d">>))
  IN IF ~hasBefore /\ ~hasAfter THEN Reject(Err(MustProvideBeforeOrAfter))
     ELSE IF hasBefore
       THEN Await("client.request /api/block/insertBlock",
                  <<InsertBlockBeforeRequest(Get(args, <<"b","e","f","o","r","e","_","i","d">>), Get(args, <<"c","o","n","t","e","n","t">>))>>)
       ELSE Await("client.request /api/block/insertBlock",
                  <<InsertBlockAfterRequest(Get(args, <<"a","f","t","e","r","_","i","d">>), Get(args, <<"c","o","n","t","e","n","t">>))>>)

\* InsertBlockHandler.execute up to its await
InsertBlockStart(args) ==
  LET hasBefore == Truthy(Get(args, <<"b","e","f","o","r","e","_","i","d">>))
      hasAfter == Truthy(Get(args, <<"a","f","t","e","r","_","i","d">>))
  IN IF ~hasBefore /\ ~hasAfter THEN Reject(Err(MustProvideBeforeOrAfter))
     ELSE IF hasBefore /\ hasAfter THEN Reject(Err(CannotProvideBeforeAndAfter))
     ELSE IF hasBefore
       THEN Await("client.request /api/block/insertBlock",
                  <<InsertBlockBeforeRequest(Get(args, <<"b","e","f","o","r","e","_","i","d">>), Get(args, <<"c","o","n","t","e","n","t">>))>>)
       ELSE Await("client.request /api/block/insertBlock",
                  <<InsertBlockAfterRequest(Get(args, <<"a","f","t","e","r","_","i","d">>), Get(args, <<"c","o","n","t","e","n","t">>))>>)

\* MoveBlockHandler.execute up to its await
MoveBlockStart(args) ==
  IF ~Truthy(Get(args, <<"p","r","e","v","i","o","u","s","_","i","d">>)) /\ ~Truthy(Get(args, <<"p","a","r","e","n","t","_","i","d">>))
    THEN Reject(Err(MustProvidePreviousOrParent))
    ELSE Await("client.request /api/block/moveBlock",
               <<MoveBlockRequest(Get(args, <<"b","l","o","c","k","_","i","d">>), Get(args, <<"p","r","e","v","i","o","u","s","_","i","d">>),
                                  Get(args, <<"p","a","r","e","n","t","_","i","d">>))>>)

\* args.memo || 'Auto snapshot'
SnapshotMemo(args) ==
  IF Truthy(Get(args, <<"m","e","m","o">>)) THEN Get(args, <<"m","e","m","o">>) ELSE Str(AutoSnapshot)

\* the own enumerable properties { ...x } copies
RECURSIVE Indexed(_, _)
Indexed(items, from) ==
  IF items = <<>> THEN <<>>
  ELSE <<Prop(NatText(from), Head(items))>> \o Indexed(Tail(items), from + 1)

Spread(x) ==
  CASE x.t = "object" -> x.v
    [] x.t = "array" -> Indexed(x.v, 0)
    [] x.t = "string" -> Indexed([i \in 1..Len(x.v) |-> Str(<<x.v[i]>>)], 0)
    [] OTHER -> <<>>

\* props with key set to val: in place when props has the key, else appended
SetProp(props, key, val) ==
  IF \E i \in 1..Len(props) : props[i].k = key
    THEN [i \in 1..Len(props) |-> IF props[i].k = key THEN Prop(key, val) ELSE props[i]]
    ELSE Append(props, Prop(key, val))

\* { ...result, message: `Snapshot created successfully with memo: "${memo}"` }
CreateSnapshotResult(result, memo) ==
  Obj(SetProp(Spread(result), <<"m","e","s","s","a","g","e">>, Str(SnapshotCreatedPrefix \o memo.v \o <<"\"">>)))

\* text.split('\n')
RECURSIVE SplitLines(_)
SplitLines(text) ==
  IF \A i \in 1..Len(text) : text[i] # "\n" THEN <<text>>
  ELSE LET at == CHOOSE i \in 1..Len(text) :
                   text[i] = "\n" /\ \A j \in 1..(i - 1) : text[j] # "\n"
       IN <<SubSeq(text, 1, at - 1)>> \o SplitLines(SubSeq(text, at + 1, Len(text)))

\* lines.join('\n')
RECURSIVE JoinLines(_)
JoinLines(lines) ==
  IF lines = <<>> THEN <<>>
  ELSE IF Len(lines) = 1 THEN lines[1]
  ELSE lines[1] \o <<"\n">> \o JoinLines(Tail(lines))

\* where array.slice puts an index: negative ones count from the end
SliceIndex(index, length) ==
  IF index < 0 THEN (IF length + index < 0 THEN 0 ELSE length + index)
  ELSE IF index > length THEN length ELSE index

\* lines.slice(start, end)
Slice(lines, start, end) ==
  LET from == SliceIndex(start, Len(lines))
      to == SliceIndex(end, Len(lines))
  IN IF from >= to THEN <<>> ELSE SubSeq(lines, from + 1, to)

DocumentInfo == <<"-","-","-"," ","D","o","c","u","m","e","n","t"," ","I","n","f","o"," ","-","-","-">> \o <<"\n">> \o <<"T","o","t","a","l"," ","L","i","n","e","s",":"," ">>
EndInfo == <<"-","-","-"," ","E","n","d"," ","I","n","f","o"," ","-","-","-">> \o <<"\n">>

\* the three texts GetDocumentContentHandler puts before the content
FullInfo(totalLines) ==
  DocumentInfo \o NumText(totalLines) \o <<"\n">> \o EndInfo \o <<"\n">>
OutOfRangeInfo(totalLines, startLine, endLine) ==
  DocumentInfo \o NumText(totalLines) \o <<"\n">> \o <<"R","e","q","u","e","s","t","e","d"," ","R","a","n","g","e",":"," ">>
    \o NumText(startLine) \o <<"-">> \o NumText(endLine) \o <<"\n">>
    \o <<"S","t","a","t","u","s",":"," ","O","u","t"," ","o","f"," ","r","a","n","g","e">> \o <<"\n">> \o EndInfo
RangeInfo(totalLines, first, last, count) ==
  DocumentInfo \o NumText(totalLines) \o <<"\n">> \o <<"C","u","r","r","e","n","t"," ","R","a","n","g","e",":"," ">>
    \o NumText(first) \o <<"-">> \o NumText(last) \o <<" ","(","s","h","o","w","i","n","g"," ">> \o NumText(count)
    \o <<" ","l","i","n","e","s",")">> \o <<"\n">> \o EndInfo \o <<"\n">>

\* mutant: the limit is taken as the end line, not as a number of lines
GetDocumentContent_LimitAsEnd(args, fullContent) ==
  LET lines == SplitLines(fullContent.v)
      totalLines == Len(lines)
      offsetArg == Get(args, <<"o","f","f","s","e","t">>)
      limitArg == Get(args, <<"l","i","m","i","t">>)
  IN IF offsetArg = Undefined /\ limitArg = Undefined
       THEN Str(FullInfo(totalLines) \o fullContent.v)
       ELSE LET startLine == IF offsetArg.t \in {"undefined", "null"} THEN 0 ELSE offsetArg.v
            IN IF startLine >= totalLines
                 THEN Str(OutOfRangeInfo(totalLines, startLine,
                            startLine + (IF Truthy(limitArg) THEN limitArg.v ELSE 0)))
                 ELSE LET endLine == IF limitArg # Undefined THEN limitArg.v
                                     ELSE totalLines
                          actualEndLine == IF endLine < totalLines THEN endLine ELSE totalLines
                      IN Str(RangeInfo(totalLines, startLine, actualEndLine - 1,
                                       actualEndLine - startLine)
                             \o JoinLines(Slice(lines, startLine, actualEndLine)))

\* GetDocumentContentHandler.execute once getFileContent has resolved to
\* fullContent; offset and limit are numbers when given
GetDocumentContent(args, fullContent) ==
  LET lines == SplitLines(fullContent.v)
      totalLines == Len(lines)
      offsetArg == Get(args, <<"o","f","f","s","e","t">>)
      limitArg == Get(args, <<"l","i","m","i","t">>)
  IN IF offsetArg = Undefined /\ limitArg = Undefined
       THEN Str(FullInfo(totalLines) \o fullContent.v)
       ELSE LET startLine == IF offsetArg.t \in {"undefined", "null"} THEN 0 ELSE offsetArg.v
            IN IF startLine >= totalLines
                 THEN Str(OutOfRangeInfo(totalLines, startLine,
                            startLine + (IF Truthy(limitArg) THEN limitArg.v ELSE 0)))
                 ELSE LET endLine == IF limitArg # Undefined THEN startLine + limitArg.v
                                     ELSE totalLines
                          actualEndLine == IF endLine < totalLines THEN endLine ELSE totalLines
                      IN Str(RangeInfo(totalLines, startLine, actualEndLine - 1,
                                       actualEndLine - startLine)
                             \o JoinLines(Slice(lines, startLine, actualEndLine)))

\* String(x): the string form of a value that is not an Error, in
\* String(error) and in template literals
StringOf(x) ==
  CASE x.t = "string" -> x.v
    [] x.t = "number" -> NumText(x.v)
    [] x.t = "boolean" -> IF x.v THEN <<"t","r","u","e">> ELSE <<"f","a","l","s","e">>
    [] x.t = "null" -> <<"n","u","l","l">>
    [] x.t = "undefined" -> <<"u","n","d","e","f","i","n","e","d">>
    [] OTHER -> <<"[","o","b","j","e","c","t"," ","O","b","j","e","c","t","]">>

\* mutant: the configuration written holds the new path only
SetDailyNoteFormat_NoSpread(args, call, reply) ==
  IF reply.kind = "reject" THEN reply
  ELSE IF call.method = "notebook.getNotebookConf"
    THEN Await("notebook.setNotebookConf",
               <<Get(args, <<"n","o","t","e","b","o","o","k","_","i","d">>),
                 Obj(<<Prop(<<"d","a","i","l","y","N","o","t","e","S","a","v","e","P","a","t","h">>, Get(args, <<"p","a","t","h","_","t","e","m","p","l","a","t","e">>))>>)>>)
  ELSE Resolve(Str(DailyNoteFormatUpdated \o StringOf(Get(args, <<"p","a","t","h","_","t","e","m","p","l","a","t","e">>))))

\* SetDailyNoteFormatHandler.execute after its await of call has settled with
\* reply: the read is followed by the write of { ...currentConf,
\* dailyNoteSavePath: args.path_template }, the write by the return
SetDailyNoteFormat(args, call, reply) ==
  IF reply.kind = "reject" THEN reply
  ELSE IF call.method = "notebook.getNotebookConf"
    THEN Await("notebook.setNotebookConf",
               <<Get(args, <<"n","o","t","e","b","o","o","k","_","i","d">>),
                 Obj(SetProp(Spread(reply.value), <<"d","a","i","l","y","N","o","t","e","S","a","v","e","P","a","t","h">>,
                             Get(args, <<"p","a","t","h","_","t","e","m","p","l","a","t","e">>)))>>)
  ELSE Resolve(Str(DailyNoteFormatUpdated \o StringOf(Get(args, <<"p","a","t","h","_","t","e","m","p","l","a","t","e">>))))

\* the synchronous part of execute(args, context): a rejection, or the
\* workspace call it awaits
ExecuteStart(handler, args) ==
  CASE handler.cls = "CreateNotebookHandler" ->
         Await("notebook.createNotebook", <<Get(args, <<"n","a","m","e">>)>>)
    [] handler.cls = "MoveDocumentsHandler" -> MoveDocumentsStart(args)
    [] handler.cls = "UpdateBlockHandler" ->
         Await("client.request /api/block/updateBlock",
               <<Get(args, <<"b","l","o","c","k","_","i","d">>), Get(args, <<"c","o","n","t","e","n","t">>)>>)
    [] handler.cls = "CreateSnapshotHandler" ->
         Await("snapshot.createSnapshot", <<SnapshotMemo(args)>>)
    [] handler.cls = "GetDocumentContentHandler" ->
         Await("getFileContent", <<Get(args, <<"d","o","c","u","m","e","n","t","_","i","d">>)>>)
    [] handler.cls = "SetDailyNoteFormatHandler" ->
         Await("notebook.getNotebookConf", <<Get(args, <<"n","o","t","e","b","o","o","k","_","i","d">>)>>)
    [] handler.cls = "AppendBlockHandler" ->
         Await("client.request /api/block/appendBlock",
               <<AppendBlockRequest(Get(args, <<"p","a","r","e","n","t","_","i","d">>), Get(args, <<"c","o","n","t","e","n","t">>))>>)
    [] handler.cls = "InsertBlockHandler" -> InsertBlockStart(args)
    [] handler.cls = "MoveBlockHandler" -> MoveBlockStart(args)
    [] handler.cls = "SetBlockAttrsHandler" ->
         Await("client.request /api/attr/setBlockAttrs",
               <<SetBlockAttrsRequest(Get(args, <<"b","l","o","c","k","_","i","d">>), Get(args, <<"a","t","t","r","s">>))>>)

\* the rest of execute once the awaited call has settled with reply
ExecuteResume(handler, args, call, reply) ==
  CASE handler.cls = "CreateNotebookHandler" -> reply
    [] handler.cls = "MoveDocumentsHandler" ->
         IF reply.kind = "reject" THEN reply
         ELSE Resolve(MoveDocumentsResult(args, call.params[1]))
    [] handler.cls = "UpdateBlockHandler" ->
         IF reply.kind = "reject" THEN reply
         ELSE LET done == UpdateBlock(reply.value)
              IN IF done.kind = "reject" THEN done ELSE Resolve(UpdateBlockResult(args))
    [] handler.cls = "SetDailyNoteFormatHandler" -> SetDailyNoteFormat(args, call, reply)
    [] handler.cls = "GetDocumentContentHandler" ->
         IF reply.kind = "reject" THEN reply
         ELSE Resolve(GetDocumentContent(args, reply.value))
    [] handler.cls = "CreateSnapshotHandler" ->
         IF reply.kind = "reject" THEN reply
         ELSE Resolve(CreateSnapshotResult(reply.value, call.params[1]))
    [] handler.cls = "AppendBlockHandler" ->
         IF reply.kind = "reject" THEN reply
         ELSE LET blockId == AppendBlock(reply.value)
              IN IF blockId.kind = "reject" THEN blockId
                 ELSE Resolve(NewBlockResult(blockId.value))
    [] handler.cls = "InsertBlockHandler" ->
         IF reply.kind = "reject" THEN reply
         ELSE LET blockId == InsertBlock(reply.value)
              IN IF blockId.kind = "reject" THEN blockId
                 ELSE Resolve(NewBlockResult(blockId.value))
    [] handler.cls = "MoveBlockHandler" ->
         IF reply.kind = "reject" THEN reply
         ELSE LET done == MoveBlock(reply.value)
              IN IF done.kind = "reject" THEN done ELSE Resolve(MoveBlockResult(args))
    [] handler.cls = "SetBlockAttrsHandler" ->
         IF reply.kind = "reject" THEN reply
         ELSE LET done == SetBlockAttrs(reply.value)
              IN IF done.kind = "reject" THEN done ELSE Resolve(SetBlockAttrsResult(args))

----------------------------------------------------------------------------
(* DefaultToolRegistry: a map from name to handler that keeps insertion    *)
(* order, held as the sequence of its values                               *)

NoHandler == [id |-> 0]

RegistryHas(reg, name) == \E i \in 1..Len(reg) : reg[i].name = name

\* register(handler): [ok |-> FALSE] stands for the thrown duplicate-name error
Register(reg, handler) ==
  IF RegistryHas(reg, handler.name) THEN [ok |-> FALSE, registry |-> reg]
  ELSE [ok |-> TRUE, registry |-> Append(reg, handler)]

\* get(name): the handler, or NoHandler for undefined
RegistryGet(reg, name) ==
  IF RegistryHas(reg, name) THEN reg[CHOOSE i \in 1..Len(reg) : reg[i].name = name]
  ELSE NoHandler

\* getAll()
RegistryGetAll(reg) == reg

----------------------------------------------------------------------------
(* The request handlers wired by setupRequestHandlers *)

RequestKinds == {"listTools", "listPrompts", "getPrompt", "callTool"}

NoResponse == [kind |-> "none"]
\* the handler's promise resolved with body
Returned(body) == [kind |-> "returned", body |-> body]
\* the handler's promise rejected: the error reaches the protocol layer
Thrown(error) == [kind |-> "thrown", error |-> error]

\* mutant: the description is advertised in place of the input schema
Descriptor_SchemaFromDescription(handler) ==
  [name |-> handler.name, description |-> handler.description,
   inputSchema |-> handler.description]

\* mutant: the advertised name carries a server prefix the registry key lacks
Descriptor_NamePrefixed(handler) ==
  [name |-> <<"s","i","y","u","a","n","_">> \o handler.name, description |-> handler.description,
   inputSchema |-> handler.inputSchema]

Descriptor(handler) ==
  [name |-> handler.name, description |-> handler.description,
   inputSchema |-> handler.inputSchema]

ListToolsResult(reg) ==
  [tools |-> [i \in 1..Len(RegistryGetAll(reg)) |-> Descriptor(RegistryGetAll(reg)[i])]]

UsageGuideName == <<"s","i","y","u","a","n","-","u","s","a","g","e","-","g","u","i","d","e">>

\* mutant: the catalog lists no prompt
ListPromptsResult_NoPrompts == [prompts |-> <<>>]

ListPromptsResult ==
  [prompts |-> <<[name |-> UsageGuideName,
                  description |-> "Usage guide and best practices for the SiYuan MCP server"]>>]

\* mutant: an unknown prompt is answered with an empty messages list
GetPromptResult_EmptyMessages(name) ==
  IF name = UsageGuideName
    THEN Returned([messages |->
           <<[role |-> "user",
              content |-> [type |-> "text",
                           text |-> "Please read the SiYuan MCP server usage guide."]],
             [role |-> "assistant",
              content |-> [type |-> "text", text |-> "getUsageGuide()"]]>>])
    ELSE Returned([messages |-> <<>>])

GetPromptResult(name) ==
  IF name = UsageGuideName
    THEN Returned([messages |->
           <<[role |-> "user",
              content |-> [type |-> "text",
                           text |-> "Please read the SiYuan MCP server usage guide."]],
             [role |-> "assistant",
              content |-> [type |-> "text", text |-> "getUsageGuide()"]]>>])
    ELSE Thrown(Err(UnknownPromptPrefix \o name))

\* mutant: the message field is read whatever was thrown
ErrorMessage_ReadsMessage(error) ==
  IF error.t = "error" THEN error.v ELSE StringOf(Undefined)

\* error instanceof Error ? error.message : String(error)
ErrorMessage(error) == IF error.t = "error" THEN error.v ELSE StringOf(error)

\* mutant: no branch for undefined
NormalizeResult_NoUndefinedBranch(result) ==
  IF IsString(result) THEN result.v ELSE JSONStringify(result)

\* mutant: no branch for strings, which are then serialised with quotes
NormalizeResult_StringifiesStrings(result) ==
  IF result = Undefined THEN SuccessText ELSE JSONStringify(result)

\* mutant: String(result) in place of JSON.stringify(result, null, 2)
NormalizeResult_StringOf(result) ==
  IF result = Undefined THEN SuccessText
  ELSE IF IsString(result) THEN result.v
  ELSE StringOf(result)

\* the text of a result
NormalizeResult(result) ==
  IF result = Undefined THEN SuccessText
  ELSE IF IsString(result) THEN result.v
  ELSE JSONStringify(result)

TextBlock(text) == [type |-> "text", text |-> text]

\* the object returned at the end of the try block
SuccessEnvelope(text) == [content |-> <<TextBlock(text)>>]

\* mutant: the catch block forgets the "Error: " prefix
ErrorEnvelope_NoPrefix(error) ==
  [content |-> <<TextBlock(ErrorMessage(error))>>, isError |-> TRUE]

\* mutant: the catch block forgets isError: true
ErrorEnvelope_NoFlag(error) ==
  [content |-> <<TextBlock(ErrorPrefix \o ErrorMessage(error))>>]

\* the object returned by the catch block
ErrorEnvelope(error) ==
  [content |-> <<TextBlock(ErrorPrefix \o ErrorMessage(error))>>, isError |-> TRUE]

\* mutant: the catch block logs and rethrows
CallToolResponse_Rethrow(outcome) ==
  IF outcome.kind = "resolve"
    THEN Returned(SuccessEnvelope(NormalizeResult(outcome.value)))
    ELSE Thrown(outcome.error)

\* what the call-tool handler returns for an outcome of the try block
CallToolResponse(outcome) ==
  IF outcome.kind = "resolve"
    THEN Returned(SuccessEnvelope(NormalizeResult(outcome.value)))
    ELSE Returned(ErrorEnvelope(outcome.error))

ToolCalledPrefix == <<"T","o","o","l"," ","c","a","l","l","e","d",":"," ">>
ExecutionFailedPrefix == <<"T","o","o","l"," ","e","x","e","c","u","t","i","o","n"," ","f","a","i","l","e","d",":"," ">>

EntryLog(name) == [level |-> "info", text |-> ToolCalledPrefix \o name]
\* mutant: the error message is logged without the failure message
ErrorLog_NoMessage(error) == [level |-> "error", text |-> ExecutionFailedPrefix]

ErrorLog(error) == [level |-> "error", text |-> ExecutionFailedPrefix \o ErrorMessage(error)]

----------------------------------------------------------------------------
(* Inputs *)

EchoName == <<"e","c","h","o">>
ToolNames == {CreateNotebookName, MoveDocumentsName, UpdateBlockName, EchoName}
PromptNames == {UsageGuideName, <<"g","u","i","d","e">>}

\* request.params.arguments for a call of name; Undefined when absent
ArgumentsFor(name) ==
  IF name = CreateNotebookName
    THEN {Undefined, Obj(<<Prop(<<"n","a","m","e">>, Str(<<"n">>))>>)}
  ELSE IF name = MoveDocumentsName
    THEN {Undefined,
          Obj(<<Prop(<<"f","r","o","m","_","i","d","s">>, Arr(<<Str(<<"d">>)>>)), Prop(<<"t","o","_","p","a","r","e","n","t","_","i","d">>, Str(<<"p">>))>>),
          Obj(<<Prop(<<"f","r","o","m","_","i","d","s">>, Str(<<"[","\"","d","\"",",","\"","e","\"","]">>)), Prop(<<"t","o","_","n","o","t","e","b","o","o","k","_","r","o","o","t">>, Str(<<"n">>))>>),
          Obj(<<Prop(<<"f","r","o","m","_","i","d","s">>, Arr(<<Str(<<"d">>)>>)), Prop(<<"t","o","_","p","a","r","e","n","t","_","i","d">>, Str(<<"p">>)),
                Prop(<<"t","o","_","n","o","t","e","b","o","o","k","_","r","o","o","t">>, Str(<<"n">>))>>),
          Obj(<<Prop(<<"f","r","o","m","_","i","d","s">>, Arr(<<Str(<<"d">>)>>))>>)}
  ELSE IF name = UpdateBlockName
    THEN {Obj(<<Prop(<<"b","l","o","c","k","_","i","d">>, Str(<<"b">>)), Prop(<<"c","o","n","t","e","n","t">>, Str(<<"c">>))>>)}
  ELSE {Undefined}

\* the responses of the workspace to a request that creates a block or
\* changes one: accepted with the operations done, refused, accepted
\* with no data
BlockResponses ==
  {Obj(<<Prop(<<"c","o","d","e">>, Num(0)), Prop(<<"m","s","g">>, Str(<<>>)),
         Prop(<<"d","a","t","a">>, Arr(<<Obj(<<Prop(<<"d","o","O","p","e","r","a","t","i","o","n","s">>,
                Arr(<<Obj(<<Prop(<<"i","d">>, Str(<<"x">>)), Prop(<<"a","c","t","i","o","n">>, Str(<<"i","n","s","e","r","t">>))>>)>>))>>)>>))>>),
   Obj(<<Prop(<<"c","o","d","e">>, Num(-1)), Prop(<<"m","s","g">>, Str(<<"b","a","d">>)), Prop(<<"d","a","t","a">>, Null)>>),
   Obj(<<Prop(<<"c","o","d","e">>, Num(0)), Prop(<<"m","s","g">>, Str(<<>>)), Prop(<<"d","a","t","a">>, Null)>>)}

\* the documents getFileContent can return: three lines, an empty line
\* between two lines, the empty document
Documents ==
  {<<"l","0">> \o <<"\n">> \o <<"l","1">> \o <<"\n">> \o <<"l","2">>,
   <<"p">> \o <<"\n", "\n">> \o <<"q">>,
   <<>>}

\* what the workspace client can answer; a pool is [values, messages,
\* thrown]: the values it resolves to, the messages of the Errors it rejects
\* with, and the values other than Errors it rejects with
RepliesFor(call, pool) ==
  {Reject(Err(m)) : m \in pool.messages} \cup {Reject(e) : e \in pool.thrown} \cup
  (CASE call.method = "notebook.createNotebook" -> {Resolve(v) : v \in pool.values}
     [] call.method = "snapshot.createSnapshot" -> {Resolve(v) : v \in pool.values}
     [] call.method = "getFileContent" -> {Resolve(Str(d)) : d \in Documents}
     [] call.method \in {"client.request /api/block/appendBlock",
                         "client.request /api/block/insertBlock",
                         "client.request /api/block/moveBlock",
                         "client.request /api/attr/setBlockAttrs"} ->
          {Resolve(response) : response \in BlockResponses}
     [] call.method = "client.request /api/block/updateBlock" ->
          {Resolve(Obj(<<Prop(<<"c","o","d","e">>, Num(0)), Prop(<<"m","s","g">>, Str(<<>>)), Prop(<<"d","a","t","a">>, Null)>>)),
           Resolve(Obj(<<Prop(<<"c","o","d","e">>, Num(-1)), Prop(<<"m","s","g">>, Str(<<"b","a","d">>)), Prop(<<"d","a","t","a">>, Null)>>))}
     [] OTHER -> {Resolve(Undefined)})

\* the notebooks of the workspace and the configuration each starts with
NotebookIds == {Str(<<"n","1">>), Str(<<"n","2">>)}
NotebookConfs ==
  [nb \in NotebookIds |->
     IF nb = Str(<<"n","1">>)
       THEN Obj(<<Prop(<<"n","a","m","e">>, Str(<<"W","o","r","k">>)), Prop(<<"d","a","i","l","y","N","o","t","e","S","a","v","e","P","a","t","h">>, Str(<<"/","o","l","d">>)),
                  Prop(<<"c","l","o","s","e","d">>, Bool(FALSE))>>)
       ELSE Obj(<<Prop(<<"n","a","m","e">>, Str(<<"H","o","m","e">>)), Prop(<<"s","o","r","t","M","o","d","e">>, Num(6))>>)]

SmallPool ==
  [values |-> {Undefined, Str(<<"h","i">>), Obj(<<Prop(<<"i","d">>, Str(<<"n">>))>>)},
   messages |-> {<<"b","o","o","m">>},
   thrown |-> {}]

\* the lists createAllHandlers can return: distinct instances, in any order
RECURSIVE HandlerLists(_)
HandlerLists(n) ==
  IF n = 0 THEN {<<>>}
  ELSE LET shorter == HandlerLists(n - 1)
       IN shorter \cup
          {Append(l, HandlerPool[i]) : l \in {s \in shorter : Len(s) = n - 1},
                                       i \in 1..Len(HandlerPool)}

DistinctInstances(l) == \A i, j \in 1..Len(l) : i # j => l[i].id # l[j].id

----------------------------------------------------------------------------
(* State *)

VARIABLES
  pc,         \* position of the SiyuanMCPServer constructor
  handlers,   \* the list createAllHandlers returned
  registered, \* how many handlers registerHandlers has gone through
  registry,   \* this.registry
  context,    \* this.context
  wired,      \* the request kinds that have a handler on mcpServer
  requests,   \* the protocol requests, by arrival
  history,    \* what an observer of the caller and the workspace has recorded
  notebooks   \* the workspace: the configuration of each notebook

vars == <<pc, handlers, registered, registry, context, wired, requests, history,
          notebooks>>

\* the events an observer records, in the order they happen: the caller
\* issues request r, the workspace call of r starts, it settles, the caller
\* has the envelope of r
Issued(r) == [e |-> "issued", r |-> r]
Sent(r) == [e |-> "sent", r |-> r]
Settled(r) == [e |-> "settled", r |-> r]
Envelope(r) == [e |-> "envelope", r |-> r]

NotObserved == [recording |-> FALSE, events |-> <<>>]
Observed == [recording |-> TRUE, events |-> <<>>]

Record(h, events) == IF h.recording THEN [h EXCEPT !.events = @ \o events] ELSE h

RequestIds == 1..MaxRequests

NoCall == [kind |-> "none"]
NoOutcome == [kind |-> "none"]

NoRequest ==
  [kind |-> "none", pc |-> "absent", name |-> <<>>, args |-> Undefined,
   handler |-> 0, passed |-> Undefined, executes |-> 0, call |-> NoCall,
   outcome |-> NoOutcome, response |-> NoResponse, responses |-> 0,
   logs |-> <<>>, afterError |-> FALSE, reply |-> NoOutcome, trace |-> <<>>]

IsErrorEnvelope(body) == "isError" \in DOMAIN body /\ body.isError = TRUE

\* some earlier request got an error envelope
SomeErrorSent ==
  \E q \in RequestIds :
    /\ requests[q].kind = "callTool"
    /\ requests[q].response.kind = "returned"
    /\ IsErrorEnvelope(requests[q].response.body)

\* request slot r is the next arrival, and its handler has been wired
Arrives(r, kind) ==
  /\ kind \in wired
  /\ requests[r].kind = "none"
  /\ IF r = 1 THEN TRUE ELSE requests[r - 1].kind # "none"

Init ==
  /\ pc = "registerHandlers"
  /\ handlers \in {l \in HandlerLists(MaxHandlers) : DistinctInstances(l)}
  /\ registered = 0
  /\ registry = <<>>
  /\ context = [siyuan |-> "createSiyuanTools(baseUrl, token)", config |-> "config",
                logger |-> "ConsoleLogger"]
  /\ wired = {}
  /\ requests = [r \in RequestIds |-> NoRequest]
  /\ history = NotObserved
  /\ notebooks = NotebookConfs

----------------------------------------------------------------------------
(* Startup: the constructor *)

\* mutant: a throw of register is caught and the loop goes on
RegisterHandler_SwallowsThrow ==
  /\ pc = "registerHandlers"
  /\ registered < Len(handlers)
  /\ registry' = Register(registry, handlers[registered + 1]).registry
  /\ registered' = registered + 1
  /\ UNCHANGED <<pc, handlers, context, wired, requests, history, notebooks>>

\* mutant: the loop walks the list from its end
RegisterHandler_Backwards ==
  /\ pc = "registerHandlers"
  /\ registered < Len(handlers)
  /\ LET r == Register(registry, handlers[Len(handlers) - registered])
     IN IF r.ok
          THEN /\ registry' = r.registry
               /\ registered' = registered + 1
               /\ pc' = pc
          ELSE /\ pc' = "threw"
               /\ UNCHANGED <<registry, registered>>
  /\ UNCHANGED <<handlers, context, wired, requests, history, notebooks>>

\* one iteration of the loop of registerHandlers; a throw of register leaves
\* the constructor, and no server exists
RegisterHandler ==
  /\ pc = "registerHandlers"
  /\ registered < Len(handlers)
  /\ LET r == Register(registry, handlers[registered + 1])
     IN IF r.ok
          THEN /\ registry' = r.registry
               /\ registered' = registered + 1
               /\ pc' = pc
          ELSE /\ pc' = "threw"
               /\ UNCHANGED <<registry, registered>>
  /\ UNCHANGED <<handlers, context, wired, requests, history, notebooks>>

\* the loop is over: new Server(...), then setupRequestHandlers
SetupRequestHandlers ==
  /\ pc = "registerHandlers"
  /\ registered = Len(handlers)
  /\ wired' = RequestKinds
  /\ pc' = "serving"
  /\ UNCHANGED <<handlers, registered, registry, context, requests, history, notebooks>>

----------------------------------------------------------------------------
(* Requests *)

\* mutant: the listing is taken from the registry's own array, reversed in place
ListTools_ReversesRegistry(r) ==
  /\ Arrives(r, "listTools")
  /\ registry' = [i \in 1..Len(registry) |-> registry[Len(registry) + 1 - i]]
  /\ requests' = [requests EXCEPT ![r] =
       [NoRequest EXCEPT !.kind = "listTools", !.pc = "responded",
                         !.response = Returned(ListToolsResult(registry')),
                         !.responses = 1, !.afterError = SomeErrorSent]]
  /\ UNCHANGED <<pc, handlers, registered, context, wired, history, notebooks>>

\* ListToolsRequestSchema handler
ListTools(r) ==
  /\ Arrives(r, "listTools")
  /\ requests' = [requests EXCEPT ![r] =
       [NoRequest EXCEPT !.kind = "listTools", !.pc = "responded",
                         !.response = Returned(ListToolsResult(registry)),
                         !.responses = 1, !.afterError = SomeErrorSent]]
  /\ UNCHANGED <<pc, handlers, registered, registry, context, wired, history, notebooks>>

\* ListPromptsRequestSchema handler
ListPrompts(r) ==
  /\ Arrives(r, "listPrompts")
  /\ requests' = [requests EXCEPT ![r] =
       [NoRequest EXCEPT !.kind = "listPrompts", !.pc = "responded",
                         !.response = Returned(ListPromptsResult),
                         !.responses = 1, !.afterError = SomeErrorSent]]
  /\ UNCHANGED <<pc, handlers, registered, registry, context, wired, history, notebooks>>

\* GetPromptRequestSchema handler
GetPrompt(r, name) ==
  /\ Arrives(r, "getPrompt")
  /\ requests' = [requests EXCEPT ![r] =
       [NoRequest EXCEPT !.kind = "getPrompt", !.pc = "responded", !.name = name,
                         !.response = GetPromptResult(name),
                         !.responses = 1, !.afterError = SomeErrorSent]]
  /\ UNCHANGED <<pc, handlers, registered, registry, context, wired, history, notebooks>>

\* mutant: the message does not carry the requested name
UnknownToolError_NoName(name) == Err(<<"U","n","k","n","o","w","n"," ","t","o","o","l">>)

\* new Error(`Unknown tool: ${name}`)
UnknownToolError(name) == Err(UnknownToolPrefix \o name)

\* mutant: execute always gets an empty object
PassedArguments_AlwaysEmpty(args) == Obj(<<>>)

\* args || {}
PassedArguments(args) == IF Truthy(args) THEN args ELSE Obj(<<>>)

\* mutant: a failure is logged but the handler never returns
Respond_HangsOnFailure(req, outcome) ==
  IF outcome.kind = "reject"
    THEN [req EXCEPT !.logs = Append(@, ErrorLog(outcome.error)),
                     !.trace = Append(@, "logger.error")]
    ELSE [req EXCEPT !.pc = "responded",
                     !.outcome = outcome,
                     !.response = CallToolResponse(outcome),
                     !.responses = @ + 1,
                     !.trace = Append(@, "return")]

\* the try block has ended with outcome: the handler returns its response
Respond(req, outcome) ==
  [req EXCEPT !.pc = "responded",
              !.outcome = outcome,
              !.response = CallToolResponse(outcome),
              !.responses = @ + 1,
              !.logs = IF outcome.kind = "reject" THEN Append(@, ErrorLog(outcome.error))
                       ELSE @,
              !.trace = IF outcome.kind = "reject" THEN @ \o <<"logger.error", "return">>
                        ELSE Append(@, "return")]

\* mutant: execute is called without await, and the handler returns at once
\* with the pending promise as its result
CallTool_NoAwait(r, name, args) ==
  /\ Arrives(r, "callTool")
  /\ LET req == [NoRequest EXCEPT !.kind = "callTool", !.name = name, !.args = args,
                                  !.logs = <<EntryLog(name)>>,
                                  !.trace = <<"logger.info", "registry.get">>,
                                  !.afterError = SomeErrorSent]
         handler == RegistryGet(registry, name)
     IN IF handler = NoHandler
          THEN requests' = [requests EXCEPT ![r] =
                 Respond(req, Reject(UnknownToolError(name)))]
          ELSE LET passed == PassedArguments(args)
                   started == ExecuteStart(handler, passed)
                   running == [req EXCEPT !.handler = handler.id, !.passed = passed,
                                          !.executes = @ + 1,
                                          !.trace = Append(@, "handler.execute")]
               IN IF started.kind = "await"
                    THEN requests' = [requests EXCEPT ![r] =
                           Respond([running EXCEPT !.call = started], Resolve(Obj(<<>>)))]
                    ELSE requests' = [requests EXCEPT ![r] = Respond(running, started)]
  /\ history' = Record(history, <<Issued(r)>> \o
                                (IF requests'[r].call.kind = "await" THEN <<Sent(r)>> ELSE <<>>)
                                \o <<Envelope(r)>>)
  /\ UNCHANGED <<pc, handlers, registered, registry, context, wired, notebooks>>

\* CallToolRequestSchema handler, up to the await of handler.execute
CallTool(r, name, args) ==
  /\ Arrives(r, "callTool")
  /\ LET req == [NoRequest EXCEPT !.kind = "callTool", !.name = name, !.args = args,
                                  !.logs = <<EntryLog(name)>>,
                                  !.trace = <<"logger.info", "registry.get">>,
                                  !.afterError = SomeErrorSent]
         handler == RegistryGet(registry, name)
     IN IF handler = NoHandler
          THEN requests' = [requests EXCEPT ![r] =
                 Respond(req, Reject(UnknownToolError(name)))]
          ELSE LET passed == PassedArguments(args)
                   started == ExecuteStart(handler, passed)
                   running == [req EXCEPT !.handler = handler.id, !.passed = passed,
                                          !.executes = @ + 1,
                                          !.trace = Append(@, "handler.execute")]
               IN IF started.kind = "await"
                    THEN requests' = [requests EXCEPT ![r] =
                           [running EXCEPT !.pc = "executing", !.call = started]]
                    ELSE requests' = [requests EXCEPT ![r] = Respond(running, started)]
  /\ history' = Record(history, <<Issued(r), IF requests'[r].pc = "executing" THEN Sent(r)
                                              ELSE Envelope(r)>>)
  /\ UNCHANGED <<pc, handlers, registered, registry, context, wired, notebooks>>

\* what the workspace answers to call: a read of a notebook's configuration
\* resolves to the configuration it holds for that notebook, a write
\* resolves to nothing, and either can fail with a message
WorkspaceReplies(call, pool) ==
  IF call.method = "notebook.getNotebookConf"
    THEN {Reject(Err(m)) : m \in pool.messages} \cup {Resolve(notebooks[call.params[1]])}
  ELSE IF call.method = "notebook.setNotebookConf"
    THEN {Reject(Err(m)) : m \in pool.messages} \cup {Resolve(Undefined)}
  ELSE RepliesFor(call, pool)

\* the notebook configurations once call has settled with reply: an accepted
\* write replaces the configuration of its notebook
WorkspaceAfter(call, reply) ==
  IF call.method = "notebook.setNotebookConf" /\ reply.kind = "resolve"
    THEN [notebooks EXCEPT ![call.params[1]] = call.params[2]]
    ELSE notebooks

\* the handler a request holds in its local variable handler
HandlerOf(req) ==
  registry[CHOOSE i \in 1..Len(registry) : registry[i].id = req.handler]

\* mutant: the handler instance keeps the arguments of its latest call in a
\* field, and execute reads them back after the await
ExecuteSettles_SharedArgs(r, pool) ==
  /\ requests[r].kind = "callTool"
  /\ requests[r].pc = "executing"
  /\ \E reply \in RepliesFor(requests[r].call, pool) :
       LET calls == {q \in RequestIds : /\ requests[q].kind = "callTool"
                                        /\ requests[q].handler = requests[r].handler}
           latest == CHOOSE q \in calls : \A p \in calls : p <= q
       IN requests' = [requests EXCEPT ![r] =
            Respond([@ EXCEPT !.reply = reply],
                    ExecuteResume(HandlerOf(requests[r]), requests[latest].passed,
                                  requests[r].call, reply))]
  /\ history' = Record(history, <<Settled(r), Envelope(r)>>)
  /\ UNCHANGED <<pc, handlers, registered, registry, context, wired, notebooks>>

\* mutant: a first failure of the workspace call makes the handler run execute again
ExecuteSettles_RetriesOnce(r, pool) ==
  /\ requests[r].kind = "callTool"
  /\ requests[r].pc = "executing"
  /\ \E reply \in RepliesFor(requests[r].call, pool) :
       IF reply.kind = "reject" /\ requests[r].executes = 1
         THEN requests' = [requests EXCEPT ![r] =
                [@ EXCEPT !.executes = @ + 1, !.trace = Append(@, "handler.execute")]]
         ELSE requests' = [requests EXCEPT ![r] =
                Respond([@ EXCEPT !.reply = reply],
                        ExecuteResume(HandlerOf(requests[r]), requests[r].passed,
                                      requests[r].call, reply))]
  /\ history' = Record(history, <<Settled(r), Envelope(r)>>)
  /\ UNCHANGED <<pc, handlers, registered, registry, context, wired, notebooks>>

\* the workspace call awaited by execute settles; execute runs to its end
\* and the call-tool handler returns
ExecuteSettles(r, pool) ==
  /\ requests[r].kind = "callTool"
  /\ requests[r].pc = "executing"
  /\ \E reply \in WorkspaceReplies(requests[r].call, pool) :
       LET outcome == ExecuteResume(HandlerOf(requests[r]), requests[r].passed,
                                    requests[r].call, reply)
       IN /\ requests' = [requests EXCEPT ![r] =
               IF outcome.kind = "await"
                 THEN [@ EXCEPT !.reply = reply, !.call = outcome]
                 ELSE Respond([@ EXCEPT !.reply = reply], outcome)]
          /\ notebooks' = WorkspaceAfter(requests[r].call, reply)
  /\ history' = Record(history, IF requests'[r].pc = "executing" THEN <<Settled(r)>>
                                ELSE <<Settled(r), Envelope(r)>>)
  /\ UNCHANGED <<pc, handlers, registered, registry, context, wired>>

Next ==
  \/ RegisterHandler
  \/ SetupRequestHandlers
  \/ \E r \in RequestIds : ListTools(r)
  \/ \E r \in RequestIds : ListPrompts(r)
  \/ \E r \in RequestIds, name \in PromptNames : GetPrompt(r, name)
  \/ \E r \in RequestIds, name \in ToolNames :
       \E args \in ArgumentsFor(name) : CallTool(r, name, args)
  \/ \E r \in RequestIds : ExecuteSettles(r, SmallPool)

Spec == Init /\ [][Next]_vars

\* Result normalisation on a wider range of results, one request at a time
RichPool ==
  [values |-> {Undefined, Null, Bool(TRUE), Bool(FALSE), Num(0), Num(12), Num(-3),
               Str(<<>>), Str(<<"h","i">>), Str(<<"E","r","r","o","r",":"," ","x">>), Str(<<"S","u","c","c","e","s","s">>),
               Str(<<"a", "\"", "\\", "\n", "b">>), Str(<<"{","\"","a","\"",":"," ","1","}">>),
               Arr(<<>>), Arr(<<Num(1), Str(<<"a">>)>>), Arr(<<Null, Arr(<<>>)>>),
               Obj(<<>>), Obj(<<Prop(<<"i","d">>, Str(<<"n">>))>>),
               Obj(<<Prop(<<"a">>, Null),
                     Prop(<<"b">>, Arr(<<Obj(<<Prop(<<"c">>, Str(<<"\"">>))>>), Bool(TRUE)>>)),
                     Prop(<<"n">>, Num(7))>>)},
   messages |-> {<<"b","o","o","m">>, <<>>, <<"E","r","r","o","r",":"," ","x">>},
   thrown |-> {}]

NextNormalize ==
  \/ RegisterHandler
  \/ SetupRequestHandlers
  \/ \E name \in ToolNames : \E args \in ArgumentsFor(name) : CallTool(1, name, args)
  \/ ExecuteSettles(1, RichPool)

SpecNormalize == Init /\ [][NextNormalize]_vars

----------------------------------------------------------------------------
(* Properties *)

Responded(r) == requests[r].kind = "callTool" /\ requests[r].pc = "responded"

\* execute of a registered handler was invoked and failed with an Error
ExecuteFailed(r) ==
  /\ Responded(r)
  /\ requests[r].executes = 1
  /\ requests[r].outcome.kind = "reject"
  /\ requests[r].outcome.error.t = "error"

\* execute of a registered handler was invoked and resolved
ExecuteResolved(r) ==
  /\ Responded(r)
  /\ requests[r].executes = 1
  /\ requests[r].outcome.kind = "resolve"

\* C1: when execute of a registered handler throws or rejects with an Error
\* of message m, the call-tool response is the envelope
\* {content: [{type: "text", text: "Error: " + m}], isError: true}, and the
\* server is still serving, with all its request handlers wired.
C1_HandlerFailureEnvelope ==
  \A r \in RequestIds :
    ExecuteFailed(r) =>
      /\ requests[r].response =
           [kind |-> "returned",
            body |-> [content |-> <<[type |-> "text",
                                     text |-> <<"E","r","r","o","r",":"," ">> \o requests[r].outcome.error.v]>>,
                      isError |-> TRUE]]
      /\ pc = "serving"
      /\ wired = RequestKinds

\* a request that arrived after a handler failure has been answered normally
C1_Witness ==
  \E r, q \in RequestIds :
    /\ ExecuteFailed(r)
    /\ requests[r].outcome.error.v = <<"b","o","o","m">>
    /\ q > r
    /\ requests[q].afterError
    /\ ExecuteResolved(q)

\* C2: a call-tool request that has been answered has exactly one response,
\* and that response is a returned envelope with one text block, never an
\* exception thrown to the protocol layer, whatever the name, the arguments
\* and the handler's outcome; a request still executing has no response yet.
C2_OneEnvelopeNoThrow ==
  \A r \in RequestIds :
    requests[r].kind = "callTool" =>
      IF requests[r].pc = "responded"
        THEN /\ requests[r].responses = 1
             /\ requests[r].response.kind = "returned"
             /\ DOMAIN requests[r].response.body \subseteq {"content", "isError"}
             /\ Len(requests[r].response.body.content) = 1
             /\ requests[r].response.body.content[1].type = "text"
        ELSE /\ requests[r].responses = 0
             /\ requests[r].response = NoResponse

\* answered requests cover a normal return, a failed execute and an unknown name
C2_Witness ==
  \E r, q \in RequestIds :
    /\ ExecuteResolved(r)
    /\ Responded(q)
    /\ requests[q].outcome.kind = "reject"

\* C3: a call-tool request for a name the registry does not hold is answered
\* by the error envelope whose text is "Error: Unknown tool: " + name, no
\* execute is invoked for it, nothing is thrown, and the envelope has the
\* fields of the envelope of a failed execute.
C3_UnknownToolEnvelope ==
  \A r \in RequestIds :
    (Responded(r) /\ \A i \in 1..Len(handlers) : handlers[i].name # requests[r].name) =>
      /\ requests[r].response =
           [kind |-> "returned",
            body |-> [content |-> <<[type |-> "text",
                                     text |-> <<"E","r","r","o","r",":"," ","U","n","k","n","o","w","n"," ","t","o","o","l",":"," ">> \o requests[r].name]>>,
                      isError |-> TRUE]]
      /\ requests[r].executes = 0
      /\ requests[r].handler = 0
      /\ \A q \in RequestIds :
           ExecuteFailed(q) =>
             /\ requests[q].response.kind = requests[r].response.kind
             /\ DOMAIN requests[q].response.body = DOMAIN requests[r].response.body
             /\ Len(requests[q].response.body.content) = 1
             /\ DOMAIN requests[q].response.body.content[1] =
                  DOMAIN requests[r].response.body.content[1]
             /\ requests[q].response.body.isError = requests[r].response.body.isError

\* an unknown name and a failed execute have both been answered, with a
\* non-empty registry
C3_Witness ==
  \E r, q \in RequestIds :
    /\ Responded(r)
    /\ requests[r].executes = 0
    /\ requests[r].name = MoveDocumentsName
    /\ registry # <<>>
    /\ ExecuteFailed(q)

C5_UndefinedIsSuccess ==
  \A r \in RequestIds :
    (ExecuteResolved(r) /\ requests[r].outcome.value.t = "undefined") =>
      /\ requests[r].response.kind = "returned"
      /\ requests[r].response.body.content = <<[type |-> "text", text |-> <<"S","u","c","c","e","s","s">>]>>

C5_Witness ==
  \E r \in RequestIds :
    /\ ExecuteResolved(r)
    /\ requests[r].outcome.value.t = "undefined"
    /\ requests[r].handler # 0

\* C6: when execute resolves to a string s, the envelope's single text block
\* is s itself, character for character, also for the empty string, a string
\* that begins with "Error: " and a string with quotes and line breaks.
C6_StringVerbatim ==
  \A r \in RequestIds :
    (ExecuteResolved(r) /\ requests[r].outcome.value.t = "string") =>
      /\ requests[r].response.kind = "returned"
      /\ Len(requests[r].response.body.content) = 1
      /\ requests[r].response.body.content[1].text = requests[r].outcome.value.v
      /\ "isError" \notin DOMAIN requests[r].response.body

\* a string that begins with "Error: " has been returned as a success
C6_Witness ==
  \E r \in RequestIds :
    /\ ExecuteResolved(r)
    /\ requests[r].outcome.value = [t |-> "string", v |-> <<"E","r","r","o","r",":"," ","x">>]
    /\ requests[r].response.body.content[1].text = <<"E","r","r","o","r",":"," ","x">>

Structured(x) == x.t \notin {"undefined", "string"}

\* x without the object properties whose value is undefined, at every depth
RECURSIVE WithoutUndefinedFields(_), WithoutUndefinedIn(_), WithoutUndefinedProps(_)
WithoutUndefinedFields(x) ==
  CASE x.t = "array" -> [t |-> "array", v |-> WithoutUndefinedIn(x.v)]
    [] x.t = "object" -> [t |-> "object", v |-> WithoutUndefinedProps(x.v)]
    [] OTHER -> x

WithoutUndefinedIn(items) ==
  IF items = <<>> THEN <<>>
  ELSE <<WithoutUndefinedFields(Head(items))>> \o WithoutUndefinedIn(Tail(items))

WithoutUndefinedProps(props) ==
  IF props = <<>> THEN <<>>
  ELSE IF Head(props).val.t = "undefined" THEN WithoutUndefinedProps(Tail(props))
  ELSE <<[k |-> Head(props).k, val |-> WithoutUndefinedFields(Head(props).val)]>>
       \o WithoutUndefinedProps(Tail(props))

\* C7 as stated: when execute resolves to a structured value v, the text
\* block parses back to a value equal to v.
C7_Original ==
  \A r \in RequestIds :
    (ExecuteResolved(r) /\ Structured(requests[r].outcome.value)) =>
      LET parsed == JSONParse(requests[r].response.body.content[1].text)
      IN parsed.ok /\ parsed.val = requests[r].outcome.value

\* C7: when execute resolves to a structured value v, the text block parses
\* back to v without its undefined-valued object fields: to v itself when v
\* has no such field (null included), and to an object that lacks the field
\* otherwise.
C7_RoundTripDropsUndefinedFields ==
  \A r \in RequestIds :
    (ExecuteResolved(r) /\ Structured(requests[r].outcome.value)) =>
      LET parsed == JSONParse(requests[r].response.body.content[1].text)
      IN /\ parsed.ok
         /\ parsed.val = WithoutUndefinedFields(requests[r].outcome.value)

\* the result of move_documents, with its undefined to_notebook_root, has
\* been returned, and so has a nested value that round-trips exactly
C7_Witness ==
  \E r \in RequestIds :
    /\ ExecuteResolved(r)
    /\ requests[r].name = MoveDocumentsName
    /\ requests[r].outcome.value.t = "object"
    /\ \E i \in 1..Len(requests[r].outcome.value.v) :
         requests[r].outcome.value.v[i].val.t = "undefined"
    /\ JSONParse(requests[r].response.body.content[1].text).ok

C7_WitnessNull ==
  \E r \in RequestIds :
    /\ ExecuteResolved(r)
    /\ requests[r].outcome.value.t = "null"
    /\ requests[r].response.body.content[1].text = <<"n","u","l","l">>

DistinctNames(l) == \A i, j \in 1..Len(l) : i # j => l[i].name # l[j].name

\* C8: the registry never holds two handlers of one name; a handler whose
\* name is already present is rejected by a throw that ends the constructor,
\* so a handler list with a repeated name never gets a serving server; and
\* request handlers are wired, and requests arrive, only after
\* registerHandlers has registered the whole list.
C8_DuplicateRejectedAtStartup ==
  /\ DistinctNames(registry)
  /\ pc = "threw" =>
       /\ registered < Len(handlers)
       /\ \E i \in 1..registered : handlers[i].name = handlers[registered + 1].name
       /\ Len(registry) = registered
  /\ ~DistinctNames(handlers) => pc # "serving"
  /\ (wired # {} \/ \E r \in RequestIds : requests[r].kind # "none") =>
       /\ pc = "serving"
       /\ registered = Len(handlers)
       /\ Len(registry) = Len(handlers)
       /\ DistinctNames(handlers)

\* the second of two handlers named create_notebook has been rejected
C8_Witness ==
  /\ pc = "threw"
  /\ Len(handlers) = 2
  /\ handlers[1].name = handlers[2].name
  /\ handlers[1].id # handlers[2].id
  /\ Len(registry) = 1

\* C9: for a handler list with pairwise distinct names, getAll() is the
\* handlers registered so far, in registration order, get(name) is the very
\* instance registered under name, and get of a name never registered is
\* undefined.
C9_RegistrationOrderAndLookup ==
  DistinctNames(handlers) =>
    /\ registered <= Len(handlers)
    /\ RegistryGetAll(registry) = SubSeq(handlers, 1, registered)
    /\ \A i \in 1..registered :
         /\ RegistryGet(registry, handlers[i].name) = handlers[i]
         /\ RegistryGet(registry, handlers[i].name).id = handlers[i].id
    /\ \A name \in ToolNames :
         (\A i \in 1..registered : handlers[i].name # name) =>
           RegistryGet(registry, name) = NoHandler

\* two handlers are registered, the first being the second CreateNotebookHandler
\* instance, and a call has been dispatched to that instance
C9_Witness ==
  /\ Len(registry) = 2
  /\ handlers[1].id = 4
  /\ \E r \in RequestIds : Responded(r) /\ requests[r].handler = 4

\* C10: a list-tools request is always answered with a returned result whose
\* tools are one {name, description, inputSchema} per handler of the
\* registered list, in its order and with that handler's values; an empty
\* registry gives {tools: []}; any two list-tools answers are equal.
C10_ListToolsDescriptors ==
  \A r \in RequestIds :
    requests[r].kind = "listTools" =>
      /\ requests[r].response.kind = "returned"
      /\ DOMAIN requests[r].response.body = {"tools"}
      /\ Len(requests[r].response.body.tools) = Len(handlers)
      /\ \A i \in 1..Len(handlers) :
           requests[r].response.body.tools[i] =
             [name |-> handlers[i].name, description |-> handlers[i].description,
              inputSchema |-> handlers[i].inputSchema]
      /\ handlers = <<>> => requests[r].response.body = [tools |-> <<>>]
      /\ \A q \in RequestIds :
           requests[q].kind = "listTools" => requests[q].response = requests[r].response

\* two list-tools requests have been answered over a registry of two handlers
C10_Witness ==
  \E r, q \in RequestIds :
    /\ r < q
    /\ requests[r].kind = "listTools"
    /\ requests[q].kind = "listTools"
    /\ Len(requests[q].response.body.tools) = 2

C10_WitnessEmpty ==
  \E r \in RequestIds :
    /\ requests[r].kind = "listTools"
    /\ registry = <<>>
    /\ requests[r].response.body = [tools |-> <<>>]
\* the names a tools/list response advertises
AdvertisedNames(body) == {body.tools[i].name : i \in 1..Len(body.tools)}

\* request r left through the unknown-tool path: no handler, no execute,
\* the error envelope naming the requested tool
UnknownToolPath(r) ==
  /\ requests[r].handler = 0
  /\ requests[r].executes = 0
  /\ requests[r].pc = "responded"
  /\ requests[r].response = Returned(ErrorEnvelope(UnknownToolError(requests[r].name)))

\* C11: every name a tools/list response advertises is a dispatch key: a
\* tools/call with that name resolves to the handler instance whose
\* descriptor was listed and does not take the unknown-tool path; a name the
\* response does not advertise always takes the unknown-tool path.
C11_AdvertisedIffDispatched ==
  \A q, r \in RequestIds :
    (requests[q].kind = "listTools" /\ requests[r].kind = "callTool") =>
      LET tools == requests[q].response.body.tools
          listed == {i \in 1..Len(tools) : tools[i].name = requests[r].name}
      IN IF listed # {}
           THEN /\ ~UnknownToolPath(r)
                /\ requests[r].handler # 0
                /\ requests[r].executes = 1
                /\ \A i \in listed :
                     /\ registry[i].id = requests[r].handler
                     /\ tools[i] = Descriptor(HandlerOf(requests[r]))
           ELSE UnknownToolPath(r)

\* a listing of two tools, and a call of one of the listed names dispatched
C11_Witness ==
  \E q, r \in RequestIds :
    /\ requests[q].kind = "listTools"
    /\ Len(requests[q].response.body.tools) = 2
    /\ requests[r].kind = "callTool"
    /\ requests[r].name \in AdvertisedNames(requests[q].response.body)
    /\ requests[r].executes = 1

\* a listing, and a call of a name it does not advertise
C11_WitnessUnlisted ==
  \E q, r \in RequestIds :
    /\ requests[q].kind = "listTools"
    /\ Len(requests[q].response.body.tools) > 0
    /\ requests[r].kind = "callTool"
    /\ requests[r].name \notin AdvertisedNames(requests[q].response.body)
    /\ UnknownToolPath(r)
\* C12: a prompts/get whose name is outside the fixed catalog fails at
\* protocol level: an Error naming the requested prompt leaves the handler,
\* and nothing is returned, neither an envelope nor a messages list; a name
\* of the catalog is answered with the two messages of the guide.
C12_UnknownPromptThrows ==
  \A r \in RequestIds :
    requests[r].kind = "getPrompt" =>
      IF requests[r].name = UsageGuideName
        THEN /\ requests[r].response.kind = "returned"
             /\ Len(requests[r].response.body.messages) = 2
        ELSE /\ requests[r].response.kind = "thrown"
             /\ DOMAIN requests[r].response = {"kind", "error"}
             /\ requests[r].response.error = Err(UnknownPromptPrefix \o requests[r].name)
             /\ ErrorMessage(requests[r].response.error) = <<"U","n","k","n","o","w","n"," ","p","r","o","m","p","t",":"," ","g","u","i","d","e">>

\* an unknown prompt has thrown, while an unknown tool got an envelope
C12_Witness ==
  \E q, r \in RequestIds :
    /\ requests[q].kind = "getPrompt"
    /\ requests[q].name # UsageGuideName
    /\ requests[q].response.kind = "thrown"
    /\ requests[r].kind = "callTool"
    /\ requests[r].handler = 0
    /\ requests[r].response.kind = "returned"
    /\ IsErrorEnvelope(requests[r].response.body)
\* the response the call-tool handler computes from what belongs to a request
\* alone: its name, its arguments and the reply to its own workspace call
OwnResponse(req) ==
  LET handler == RegistryGet(registry, req.name)
  IN IF handler = NoHandler
       THEN CallToolResponse(Reject(UnknownToolError(req.name)))
       ELSE LET passed == PassedArguments(req.args)
                started == ExecuteStart(handler, passed)
            IN IF started.kind = "await"
                 THEN CallToolResponse(ExecuteResume(handler, passed, started, req.reply))
                 ELSE CallToolResponse(started)

\* C13: with several tools/call requests in flight against the shared handler
\* instances, every answered request has exactly one response, and it is
\* the one its own name, arguments and workspace reply determine; a request
\* still waiting for the workspace has none. What the other requests asked,
\* and whether they failed or are still waiting, has no part in it.
C13_OwnInputsDetermineEnvelope ==
  \A r \in RequestIds :
    requests[r].kind = "callTool" =>
      IF requests[r].pc = "responded"
        THEN /\ requests[r].responses = 1
             /\ requests[r].response = OwnResponse(requests[r])
        ELSE /\ requests[r].pc = "executing"
             /\ requests[r].responses = 0
             /\ requests[r].response = NoResponse

\* two calls of one handler with different arguments: the later one has its
\* success envelope while the earlier one still waits for the workspace
C13_Witness ==
  \E q, r \in RequestIds :
    /\ q < r
    /\ requests[q].kind = "callTool" /\ requests[r].kind = "callTool"
    /\ requests[q].handler # 0 /\ requests[q].handler = requests[r].handler
    /\ requests[q].args # requests[r].args
    /\ requests[q].pc = "executing"
    /\ requests[r].pc = "responded"
    /\ requests[r].outcome.kind = "resolve"

\* two calls of one handler with the same arguments: the workspace failed
\* one and served the other
C13_WitnessFailure ==
  \E q, r \in RequestIds :
    /\ q # r
    /\ Responded(q) /\ Responded(r)
    /\ requests[q].handler # 0 /\ requests[q].handler = requests[r].handler
    /\ requests[q].args = requests[r].args
    /\ requests[q].reply.kind = "reject" /\ IsErrorEnvelope(requests[q].response.body)
    /\ requests[r].reply.kind = "resolve" /\ ~IsErrorEnvelope(requests[r].response.body)
----------------------------------------------------------------------------
(* Progress *)

\* every workspace call settles: the client resolves or rejects the promise
\* execute awaits, and the event loop then runs the continuation
WorkspaceSettles == \A r \in RequestIds : WF_vars(ExecuteSettles(r, SmallPool))

\* the server once its constructor has returned, with two handlers registered
InitServing ==
  /\ pc = "serving"
  /\ handlers = <<CreateNotebookHandler(1), UpdateBlockHandler(3)>>
  /\ registered = Len(handlers)
  /\ registry = handlers
  /\ context = [siyuan |-> "createSiyuanTools(baseUrl, token)", config |-> "config",
                logger |-> "ConsoleLogger"]
  /\ wired = RequestKinds
  /\ requests = [r \in RequestIds |-> NoRequest]
  /\ history = NotObserved
  /\ notebooks = NotebookConfs

NextCalls ==
  \/ \E r \in RequestIds, name \in ToolNames :
       \E args \in ArgumentsFor(name) : CallTool(r, name, args)
  \/ \E r \in RequestIds : ExecuteSettles(r, SmallPool)

SpecLive == InitServing /\ [][NextCalls]_vars /\ WorkspaceSettles

\* C14: every tools/call request received is eventually answered with one
\* envelope, provided every workspace call it awaits settles; none is
\* dropped or left waiting.
C14_EveryCallAnswered ==
  \A r \in RequestIds :
    (requests[r].kind = "callTool") ~>
      (/\ requests[r].pc = "responded"
       /\ requests[r].responses = 1
       /\ requests[r].response.kind = "returned")

\* a call that had to wait for the workspace, and failed there, is answered
C14_Witness ==
  \E r \in RequestIds :
    /\ Responded(r)
    /\ requests[r].reply.kind = "reject"
    /\ requests[r].response.kind = "returned"
\* the execution context the constructor builds
StartupContext ==
  [siyuan |-> "createSiyuanTools(baseUrl, token)", config |-> "config",
   logger |-> "ConsoleLogger"]

\* C15: once the constructor has returned, no step of any protocol request
\* (tools/list, prompts/list, prompts/get, tools/call, or the completion of
\* a handler) changes the registry's names, mapping or order, or the
\* execution context: both keep the values startup gave them.
C15_RequestsKeepRegistryAndContext ==
  [][pc = "serving" =>
       /\ registry' = registry
       /\ \A name \in ToolNames : RegistryGet(registry', name) = RegistryGet(registry, name)
       /\ registry' = handlers
       /\ context' = context
       /\ context' = StartupContext]_vars

\* two handlers registered; a tools/list answered and a tools/call failed
C15_Witness ==
  /\ pc = "serving"
  /\ Len(registry) = 2
  /\ registry = handlers
  /\ \E q, r \in RequestIds :
       /\ requests[q].kind = "listTools" /\ requests[q].pc = "responded"
       /\ Responded(r) /\ requests[r].handler # 0
       /\ IsErrorEnvelope(requests[r].response.body)
\* how many times event occurs in a request's trace
RECURSIVE Occurrences(_, _)
Occurrences(trace, event) ==
  IF trace = <<>> THEN 0
  ELSE (IF Head(trace) = event THEN 1 ELSE 0) + Occurrences(Tail(trace), event)

\* C16: a tools/call request whose name is registered invokes execute once,
\* on the handler registered under that name and on no other; a request
\* whose name is unknown invokes no execute. This holds in every state, so
\* also after execute has failed: the call is not retried or run again.
C16_ExecuteAtMostOnce ==
  \A r \in RequestIds :
    requests[r].kind = "callTool" =>
      /\ Occurrences(requests[r].trace, "registry.get") = 1
      /\ Occurrences(requests[r].trace, "handler.execute") = requests[r].executes
      /\ Occurrences(requests[r].trace, "return") = requests[r].responses
      /\ requests[r].responses <= 1
      /\ IF RegistryGet(registry, requests[r].name) = NoHandler
           THEN requests[r].executes = 0 /\ requests[r].handler = 0
           ELSE /\ requests[r].executes = 1
                /\ requests[r].handler = RegistryGet(registry, requests[r].name).id

\* a call whose execute failed at the workspace has been answered, and a
\* call of an unknown name has been answered without any execute
C16_Witness ==
  \E q, r \in RequestIds :
    /\ Responded(q) /\ requests[q].reply.kind = "reject" /\ requests[q].executes = 1
    /\ Responded(r) /\ requests[r].handler = 0 /\ requests[r].executes = 0
\* text without its first n characters
DropPrefix(text, n) == SubSeq(text, n + 1, Len(text))

\* C17: every tools/call request hands the logger an entry message naming
\* the requested tool before the registry is asked and before any execute;
\* it hands the logger an error message exactly when its response is an
\* error envelope, and that message carries the failure message the
\* envelope carries. Nothing else is logged, and the envelope is built from
\* the outcome of the call alone.
C17_EntryAndErrorLogs ==
  \A r \in RequestIds :
    requests[r].kind = "callTool" =>
      LET req == requests[r]
          failed == req.pc = "responded" /\ IsErrorEnvelope(req.response.body)
      IN /\ Len(req.logs) >= 1
         /\ req.logs[1] = [level |-> "info", text |-> ToolCalledPrefix \o req.name]
         /\ req.trace[1] = "logger.info"
         /\ req.trace[2] = "registry.get"
         /\ \A i \in 1..Len(req.trace) : req.trace[i] = "handler.execute" => i = 3
         /\ Len(req.logs) = (IF failed THEN 2 ELSE 1)
         /\ Occurrences(req.trace, "logger.error") = (IF failed THEN 1 ELSE 0)
         /\ failed =>
              /\ req.logs[2].level = "error"
              /\ SubSeq(req.logs[2].text, 1, Len(ExecutionFailedPrefix)) = ExecutionFailedPrefix
              /\ req.response.body.content[1].text =
                   ErrorPrefix \o DropPrefix(req.logs[2].text, Len(ExecutionFailedPrefix))
              /\ req.trace[Len(req.trace) - 1] = "logger.error"
         /\ req.pc = "responded" => req.response = CallToolResponse(req.outcome)

\* a failed call with its two log messages, and a served call with one
C17_Witness ==
  \E q, r \in RequestIds :
    /\ Responded(q) /\ IsErrorEnvelope(requests[q].response.body)
    /\ requests[q].executes = 1 /\ Len(requests[q].logs) = 2
    /\ Responded(r) /\ ~IsErrorEnvelope(requests[r].response.body)
    /\ Len(requests[r].logs) = 1
----------------------------------------------------------------------------
(* Ordering of a snapshot and an edit *)

\* the server once its constructor has returned, with the snapshot and the
\* edit handler registered, and an observer recording
InitOrder ==
  /\ pc = "serving"
  /\ handlers = <<CreateSnapshotHandler(5), UpdateBlockHandler(3)>>
  /\ registered = Len(handlers)
  /\ registry = handlers
  /\ context = StartupContext
  /\ wired = RequestKinds
  /\ requests = [r \in RequestIds |-> NoRequest]
  /\ history = Observed
  /\ notebooks = NotebookConfs

\* the calls of a caller that snapshots and edits
OrderCalls ==
  {[name |-> CreateSnapshotName, args |-> Undefined],
   [name |-> CreateSnapshotName, args |-> Obj(<<Prop(<<"m","e","m","o">>, Str(<<"m">>))>>)],
   [name |-> UpdateBlockName,
    args |-> Obj(<<Prop(<<"b","l","o","c","k","_","i","d">>, Str(<<"b">>)), Prop(<<"c","o","n","t","e","n","t">>, Str(<<"c">>))>>)]}

NextOrder ==
  \/ \E r \in RequestIds, c \in OrderCalls : CallTool(r, c.name, c.args)
  \/ \E r \in RequestIds : ExecuteSettles(r, SmallPool)

SpecOrder == InitOrder /\ [][NextOrder]_vars

\* where event stands in the record, 0 when it has not happened
Position(event) ==
  IF \E i \in 1..Len(history.events) : history.events[i] = event
    THEN CHOOSE i \in 1..Len(history.events) : history.events[i] = event
    ELSE 0

\* both events have happened, first before second
Before(first, second) ==
  /\ Position(first) > 0
  /\ Position(second) > 0
  /\ Position(first) < Position(second)

IsCallOf(r, name) == requests[r].kind = "callTool" /\ requests[r].name = name

\* C18: when the caller has the envelope of a create_snapshot call before it
\* issues an editing call, the workspace call of the snapshot has settled
\* before the workspace call of the edit starts. (A caller that does not
\* wait gets no such order: see the two witnesses below.)
C18_AwaitedSnapshotPrecedesEdit ==
  \A s, e \in RequestIds :
    (/\ IsCallOf(s, CreateSnapshotName)
     /\ IsCallOf(e, UpdateBlockName)
     /\ Before(Envelope(s), Issued(e))) =>
      /\ Before(Sent(s), Settled(s))
      /\ Before(Settled(s), Envelope(s))
      /\ Before(Issued(e), Sent(e))
      /\ Before(Settled(s), Sent(e))

\* the caller waited for the snapshot's envelope, then edited, and the edit
\* has been answered
C18_Witness ==
  \E s, e \in RequestIds :
    /\ IsCallOf(s, CreateSnapshotName)
    /\ IsCallOf(e, UpdateBlockName)
    /\ Before(Envelope(s), Issued(e))
    /\ Before(Sent(e), Envelope(e))

\* the caller did not wait: the edit was issued after the snapshot and
\* settled before it
C18_WitnessEditFirst ==
  \E s, e \in RequestIds :
    /\ IsCallOf(s, CreateSnapshotName)
    /\ IsCallOf(e, UpdateBlockName)
    /\ Before(Issued(s), Issued(e))
    /\ Before(Sent(e), Settled(s))
    /\ Before(Settled(e), Settled(s))

\* the caller did not wait: the snapshot settled first all the same
C18_WitnessSnapshotFirst ==
  \E s, e \in RequestIds :
    /\ IsCallOf(s, CreateSnapshotName)
    /\ IsCallOf(e, UpdateBlockName)
    /\ Before(Issued(s), Issued(e))
    /\ Before(Issued(e), Envelope(s))
    /\ Before(Settled(s), Settled(e))
----------------------------------------------------------------------------
(* Block mutations *)

\* the server once its constructor has returned, with the five handlers that
\* change blocks registered
InitBlocks ==
  /\ pc = "serving"
  /\ handlers = <<UpdateBlockHandler(3), AppendBlockHandler(6), InsertBlockHandler(7),
                  MoveBlockHandler(8), SetBlockAttrsHandler(9)>>
  /\ registered = Len(handlers)
  /\ registry = handlers
  /\ context = StartupContext
  /\ wired = RequestKinds
  /\ requests = [r \in RequestIds |-> NoRequest]
  /\ history = NotObserved
  /\ notebooks = NotebookConfs

MutatingNames ==
  {UpdateBlockName, AppendBlockName, InsertBlockName, MoveBlockName, SetBlockAttrsName}

\* well-formed calls of the five tools
MutationCalls ==
  {[name |-> UpdateBlockName,
    args |-> Obj(<<Prop(<<"b","l","o","c","k","_","i","d">>, Str(<<"b">>)), Prop(<<"c","o","n","t","e","n","t">>, Str(<<"c">>))>>)],
   [name |-> AppendBlockName,
    args |-> Obj(<<Prop(<<"p","a","r","e","n","t","_","i","d">>, Str(<<"p">>)), Prop(<<"c","o","n","t","e","n","t">>, Str(<<"c">>))>>)],
   [name |-> InsertBlockName,
    args |-> Obj(<<Prop(<<"c","o","n","t","e","n","t">>, Str(<<"c">>)), Prop(<<"b","e","f","o","r","e","_","i","d">>, Str(<<"b">>))>>)],
   [name |-> InsertBlockName,
    args |-> Obj(<<Prop(<<"c","o","n","t","e","n","t">>, Str(<<"c">>)), Prop(<<"a","f","t","e","r","_","i","d">>, Str(<<"a">>))>>)],
   [name |-> MoveBlockName,
    args |-> Obj(<<Prop(<<"b","l","o","c","k","_","i","d">>, Str(<<"b">>)), Prop(<<"p","r","e","v","i","o","u","s","_","i","d">>, Str(<<"s">>))>>)],
   [name |-> SetBlockAttrsName,
    args |-> Obj(<<Prop(<<"b","l","o","c","k","_","i","d">>, Str(<<"b">>)),
                   Prop(<<"a","t","t","r","s">>, Obj(<<Prop(<<"c","u","s","t","o","m","-","s","t","a","t","u","s">>, Str(<<"d","o","n","e">>))>>))>>)]}

NextBlocks ==
  \/ \E r \in RequestIds, c \in MutationCalls : CallTool(r, c.name, c.args)
  \/ \E r \in RequestIds : ExecuteSettles(r, SmallPool)

SpecBlocks == InitBlocks /\ [][NextBlocks]_vars

\* the workspace answered the call of request r with code 0
Accepted(r) ==
  /\ requests[r].reply.kind = "resolve"
  /\ Get(requests[r].reply.value, <<"c","o","d","e">>) = Num(0)

\* the workspace answered the call of request r with a code other than 0
Refused(r) ==
  /\ requests[r].reply.kind = "resolve"
  /\ Get(requests[r].reply.value, <<"c","o","d","e">>) # Num(0)

\* the message SiyuanBlockApi throws for a refused request of tool name
FailedTo(name) ==
  CASE name = UpdateBlockName -> FailedToUpdateBlock
    [] name = AppendBlockName -> FailedToAppendBlock
    [] name = InsertBlockName -> FailedToInsertBlock
    [] name = MoveBlockName -> FailedToMoveBlock
    [] name = SetBlockAttrsName -> FailedToSetBlockAttrs

\* C19: for update_block, append_block, insert_block, move_block and
\* set_block_attrs, a workspace response whose code is not 0 ends in the
\* error envelope carrying 'Failed to ...: ' and the workspace's message; a
\* success result (success: true, or the id of the new block) is returned
\* only when the workspace answered with code 0.
C19_RefusedMutationIsError ==
  \A r \in RequestIds :
    (Responded(r) /\ requests[r].name \in MutatingNames /\ requests[r].handler # 0) =>
      LET req == requests[r]
          body == req.response.body
      IN /\ req.response.kind = "returned"
         /\ Refused(r) =>
              /\ IsErrorEnvelope(body)
              /\ body.content[1].text =
                   ErrorPrefix \o FailedTo(req.name) \o Get(req.reply.value, <<"m","s","g">>).v
         /\ ~IsErrorEnvelope(body) =>
              /\ Accepted(r)
              /\ req.outcome.kind = "resolve"
              /\ IF req.name \in {AppendBlockName, InsertBlockName}
                   THEN req.outcome.value = NewBlockResult(Str(<<"x">>))
                   ELSE /\ Get(req.outcome.value, <<"s","u","c","c","e","s","s">>) = Bool(TRUE)
                        /\ Get(req.outcome.value, <<"b","l","o","c","k","_","i","d">>) = Get(req.args, <<"b","l","o","c","k","_","i","d">>)
         /\ ~Accepted(r) => IsErrorEnvelope(body)

\* the workspace refused one mutation and accepted another of the same tool
C19_Witness ==
  \E q, r \in RequestIds :
    /\ Responded(q) /\ Responded(r)
    /\ requests[q].name = requests[r].name
    /\ requests[q].name \in MutatingNames
    /\ Refused(q) /\ IsErrorEnvelope(requests[q].response.body)
    /\ Accepted(r) /\ ~IsErrorEnvelope(requests[r].response.body)
----------------------------------------------------------------------------
(* move_documents *)

\* the server once its constructor has returned, with move_documents registered
InitMove ==
  /\ pc = "serving"
  /\ handlers = <<MoveDocumentsHandler(2)>>
  /\ registered = Len(handlers)
  /\ registry = handlers
  /\ context = StartupContext
  /\ wired = RequestKinds
  /\ requests = [r \in RequestIds |-> NoRequest]
  /\ history = NotObserved
  /\ notebooks = NotebookConfs

\* from_ids as callers send it: an array, the JSON text of an array, left out
MoveSources ==
  {<<Prop(<<"f","r","o","m","_","i","d","s">>, Arr(<<Str(<<"d">>)>>))>>,
   <<Prop(<<"f","r","o","m","_","i","d","s">>, Str(<<"[","\"","d","\"",",","\"","e","\"","]">>))>>,
   <<>>}

\* the destinations callers send: none, either one, both, and one beside an
\* empty string
MoveDestinations ==
  {<<>>,
   <<Prop(<<"t","o","_","p","a","r","e","n","t","_","i","d">>, Str(<<"p">>))>>,
   <<Prop(<<"t","o","_","n","o","t","e","b","o","o","k","_","r","o","o","t">>, Str(<<"n">>))>>,
   <<Prop(<<"t","o","_","p","a","r","e","n","t","_","i","d">>, Str(<<"p">>)), Prop(<<"t","o","_","n","o","t","e","b","o","o","k","_","r","o","o","t">>, Str(<<"n">>))>>,
   <<Prop(<<"t","o","_","p","a","r","e","n","t","_","i","d">>, Str(<<>>)), Prop(<<"t","o","_","n","o","t","e","b","o","o","k","_","r","o","o","t">>, Str(<<"n">>))>>}

MoveCalls == {Obj(s \o d) : s \in MoveSources, d \in MoveDestinations}

NextMove ==
  \/ \E r \in RequestIds, args \in MoveCalls : CallTool(r, MoveDocumentsName, args)
  \/ \E r \in RequestIds : ExecuteSettles(r, SmallPool)

SpecMove == InitMove /\ [][NextMove]_vars

\* the call names a destination under key: a value that is not empty
Supplies(req, key) == Truthy(Get(req.args, key))

OneDestination(req) == Supplies(req, <<"t","o","_","p","a","r","e","n","t","_","i","d">>) # Supplies(req, <<"t","o","_","n","o","t","e","b","o","o","k","_","r","o","o","t">>)

UsableSources(req) == Get(req.args, <<"f","r","o","m","_","i","d","s">>).t \in {"array", "string"}

\* request r ended in the error envelope of message, and sent no move
RejectedUnsent(r, message) ==
  /\ requests[r].pc = "responded"
  /\ requests[r].response = Returned(ErrorEnvelope(Err(message)))
  /\ requests[r].response.body.content[1].text = ErrorPrefix \o message
  /\ requests[r].call = NoCall

\* request r has sent one move, to the method of its one destination
SentToItsDestination(r) ==
  /\ requests[r].call.kind = "await"
  /\ requests[r].executes = 1
  /\ IF Supplies(requests[r], <<"t","o","_","p","a","r","e","n","t","_","i","d">>)
       THEN /\ requests[r].call.method = "document.moveDocumentsByIds"
            /\ requests[r].call.params[2] = Get(requests[r].args, <<"t","o","_","p","a","r","e","n","t","_","i","d">>)
       ELSE /\ requests[r].call.method = "document.moveDocumentsToNotebookRoot"
            /\ requests[r].call.params[2] = Get(requests[r].args, <<"t","o","_","n","o","t","e","b","o","o","k","_","r","o","o","t">>)

\* the two destinations named, or none, is an error and sends nothing
BothOrNeitherRejected(r) ==
  ~OneDestination(requests[r]) =>
    RejectedUnsent(r, IF ~UsableSources(requests[r]) THEN FromIdsTypeError
                      ELSE IF Supplies(requests[r], <<"t","o","_","p","a","r","e","n","t","_","i","d">>) THEN CannotProvideBoth
                      ELSE MustProvideOneDestination)

\* C20 as claimed: a move_documents call that names both destinations, or
\* none, ends in an error envelope with the handler's message and sends no
\* move; a call that names exactly one sends one move, to the matching
\* method.
C20_Original ==
  \A r \in RequestIds :
    IsCallOf(r, MoveDocumentsName) =>
      /\ BothOrNeitherRejected(r)
      /\ OneDestination(requests[r]) => SentToItsDestination(r)

\* C20: a move_documents call that names both destinations, or none, ends in
\* an error envelope with the handler's message and sends no move; a call
\* that names exactly one sends one move, to the matching method, when its
\* from_ids is a string or an array, and otherwise ends in the error
\* envelope of the from_ids message and sends no move either.
C20_OneDestinationWithSources ==
  \A r \in RequestIds :
    IsCallOf(r, MoveDocumentsName) =>
      /\ BothOrNeitherRejected(r)
      /\ OneDestination(requests[r]) =>
           IF UsableSources(requests[r]) THEN SentToItsDestination(r)
           ELSE RejectedUnsent(r, FromIdsTypeError)

\* one call named both destinations and was rejected unsent, another named
\* the notebook root alone and its move was sent there
C20_Witness ==
  \E q, r \in RequestIds :
    /\ IsCallOf(q, MoveDocumentsName)
    /\ Supplies(requests[q], <<"t","o","_","p","a","r","e","n","t","_","i","d">>) /\ Supplies(requests[q], <<"t","o","_","n","o","t","e","b","o","o","k","_","r","o","o","t">>)
    /\ RejectedUnsent(q, CannotProvideBoth)
    /\ IsCallOf(r, MoveDocumentsName)
    /\ ~Supplies(requests[r], <<"t","o","_","p","a","r","e","n","t","_","i","d">>) /\ Supplies(requests[r], <<"t","o","_","n","o","t","e","b","o","o","k","_","r","o","o","t">>)
    /\ SentToItsDestination(r)
    /\ requests[r].call.method = "document.moveDocumentsToNotebookRoot"
    /\ requests[r].pc = "responded" /\ requests[r].outcome.kind = "resolve"

\* a call with one destination and no from_ids was rejected unsent
C20_WitnessNoSources ==
  \E r \in RequestIds :
    /\ IsCallOf(r, MoveDocumentsName)
    /\ OneDestination(requests[r])
    /\ ~UsableSources(requests[r])
    /\ RejectedUnsent(r, FromIdsTypeError)
----------------------------------------------------------------------------
(* insert_block and move_block *)

\* the server once its constructor has returned, with insert_block and
\* move_block registered
InitPlacing ==
  /\ pc = "serving"
  /\ handlers = <<InsertBlockHandler(7), MoveBlockHandler(8)>>
  /\ registered = Len(handlers)
  /\ registry = handlers
  /\ context = StartupContext
  /\ wired = RequestKinds
  /\ requests = [r \in RequestIds |-> NoRequest]
  /\ history = NotObserved
  /\ notebooks = NotebookConfs

InsertBlockCall(reference) ==
  [name |-> InsertBlockName, args |-> Obj(<<Prop(<<"c","o","n","t","e","n","t">>, Str(<<"c">>))>> \o reference)]
MoveBlockCall(destination) ==
  [name |-> MoveBlockName, args |-> Obj(<<Prop(<<"b","l","o","c","k","_","i","d">>, Str(<<"b">>))>> \o destination)]

\* calls of insert_block: either reference block, both, none, and one beside
\* an empty string; calls of move_block: either destination, both, none
PlacingCalls ==
  {InsertBlockCall(d) :
     d \in {<<>>,
            <<Prop(<<"b","e","f","o","r","e","_","i","d">>, Str(<<"b">>))>>,
            <<Prop(<<"a","f","t","e","r","_","i","d">>, Str(<<"b">>))>>,
            <<Prop(<<"b","e","f","o","r","e","_","i","d">>, Str(<<"b">>)), Prop(<<"a","f","t","e","r","_","i","d">>, Str(<<"a">>))>>,
            <<Prop(<<"b","e","f","o","r","e","_","i","d">>, Str(<<>>)), Prop(<<"a","f","t","e","r","_","i","d">>, Str(<<"a">>))>>}}
  \cup
  {MoveBlockCall(d) :
     d \in {<<>>,
            <<Prop(<<"p","r","e","v","i","o","u","s","_","i","d">>, Str(<<"a">>))>>,
            <<Prop(<<"p","a","r","e","n","t","_","i","d">>, Str(<<"p">>))>>,
            <<Prop(<<"p","r","e","v","i","o","u","s","_","i","d">>, Str(<<"a">>)), Prop(<<"p","a","r","e","n","t","_","i","d">>, Str(<<"p">>))>>}}

NextPlacing ==
  \/ \E r \in RequestIds, c \in PlacingCalls : CallTool(r, c.name, c.args)
  \/ \E r \in RequestIds : ExecuteSettles(r, SmallPool)

SpecPlacing == InitPlacing /\ [][NextPlacing]_vars

\* request r has sent one request to the workspace, to method
SentOnce(r, method) ==
  /\ requests[r].call.kind = "await"
  /\ requests[r].call.method = method
  /\ Len(requests[r].call.params) = 1
  /\ requests[r].executes = 1

\* C21: an insert_block call that names both before_id and after_id, or
\* neither, ends in the error envelope of the handler's validation message
\* and sends no insert to the workspace; a call that names exactly one
\* sends exactly one insert.
C21_InsertNeedsOneReference ==
  \A r \in RequestIds :
    IsCallOf(r, InsertBlockName) =>
      LET before == Supplies(requests[r], <<"b","e","f","o","r","e","_","i","d">>)
          after == Supplies(requests[r], <<"a","f","t","e","r","_","i","d">>)
      IN IF before # after
           THEN SentOnce(r, "client.request /api/block/insertBlock")
           ELSE RejectedUnsent(r, IF before THEN CannotProvideBeforeAndAfter
                                  ELSE MustProvideBeforeOrAfter)

\* one insert named both reference blocks and was rejected unsent, another
\* named one and the workspace took it
C21_Witness ==
  \E q, r \in RequestIds :
    /\ IsCallOf(q, InsertBlockName)
    /\ RejectedUnsent(q, CannotProvideBeforeAndAfter)
    /\ IsCallOf(r, InsertBlockName)
    /\ SentOnce(r, "client.request /api/block/insertBlock")
    /\ requests[r].pc = "responded" /\ requests[r].outcome.kind = "resolve"

\* an insert that named no reference block was rejected unsent
C21_WitnessNeither ==
  \E r \in RequestIds :
    /\ IsCallOf(r, InsertBlockName)
    /\ RejectedUnsent(r, MustProvideBeforeOrAfter)
\* the workspace's side of /api/block/insertBlock, as the claim takes it: the
\* new block goes right after the child named by previousID, else right
\* before the child named by nextID; children is the parent's child order
RECURSIVE InsertedAfter(_, _, _)
InsertedAfter(children, previous, new) ==
  IF children = <<>> THEN <<>>
  ELSE IF Head(children) = previous
    THEN <<Head(children), new>> \o Tail(children)
    ELSE <<Head(children)>> \o InsertedAfter(Tail(children), previous, new)

RECURSIVE InsertedBefore(_, _, _)
InsertedBefore(children, next, new) ==
  IF children = <<>> THEN <<>>
  ELSE IF Head(children) = next
    THEN <<new, Head(children)>> \o Tail(children)
    ELSE <<Head(children)>> \o InsertedBefore(Tail(children), next, new)

WorkspaceInsertBlock(children, body, new) ==
  IF Truthy(Get(body, <<"p","r","e","v","i","o","u","s","I","D">>))
    THEN InsertedAfter(children, Get(body, <<"p","r","e","v","i","o","u","s","I","D">>), new)
  ELSE IF Truthy(Get(body, <<"n","e","x","t","I","D">>))
    THEN InsertedBefore(children, Get(body, <<"n","e","x","t","I","D">>), new)
  ELSE children

\* a parent with three children, and the block an insert adds to it
SiblingsABC == <<Str(<<"a">>), Str(<<"b">>), Str(<<"c">>)>>
NewBlock == Str(<<"x">>)

\* the insert of request r was sent with one reference block and the
\* workspace accepted it
InsertDone(r) ==
  /\ IsCallOf(r, InsertBlockName)
  /\ SentOnce(r, "client.request /api/block/insertBlock")
  /\ requests[r].pc = "responded"
  /\ Accepted(r)

\* C22: an insert_block call with before_id = b leaves the new block right
\* before b in the child order of b's parent, and a call with after_id = b
\* right after b, the workspace inserting after the block named by
\* previousID and before the block named by nextID.
C22_InsertSide ==
  \A r \in RequestIds :
    InsertDone(r) =>
      LET placed == WorkspaceInsertBlock(SiblingsABC, requests[r].call.params[1], NewBlock)
      IN /\ Get(requests[r].args, <<"b","e","f","o","r","e","_","i","d">>) = Str(<<"b">>) =>
              placed = <<Str(<<"a">>), NewBlock, Str(<<"b">>), Str(<<"c">>)>>
         /\ Get(requests[r].args, <<"a","f","t","e","r","_","i","d">>) = Str(<<"b">>) =>
              placed = <<Str(<<"a">>), Str(<<"b">>), NewBlock, Str(<<"c">>)>>

\* ---------------------------------------------------------------------
\* Reading a document in pages: one get_document_content request, offset
\* and limit each absent or an integer of -2..MaxPage
\* ---------------------------------------------------------------------
MaxPage == 4

InitContent ==
  /\ pc = "serving"
  /\ handlers = <<GetDocumentContentHandler(10)>>
  /\ registered = Len(handlers)
  /\ registry = handlers
  /\ context = StartupContext
  /\ wired = RequestKinds
  /\ requests = [r \in RequestIds |-> NoRequest]
  /\ history = NotObserved
  /\ notebooks = NotebookConfs

PageNumbers == (0 - 2)..MaxPage

\* the offset or limit part of the arguments: left out, or a number
PageArguments(key) == {<<>>} \cup {<<Prop(key, Num(n))>> : n \in PageNumbers}

ContentArguments ==
  {Obj(<<Prop(<<"d","o","c","u","m","e","n","t","_","i","d">>, Str(<<"d">>))>> \o o \o l) :
     o \in PageArguments(<<"o","f","f","s","e","t">>), l \in PageArguments(<<"l","i","m","i","t">>)}

NextContent ==
  \/ \E args \in ContentArguments : CallTool(1, GetDocumentContentName, args)
  \/ ExecuteSettles(1, SmallPool)

SpecContent == InitContent /\ [][NextContent]_vars

\* request r read a document: the workspace returned its content and the
\* caller has the text of the response
ContentRead(r) ==
  /\ IsCallOf(r, GetDocumentContentName)
  /\ requests[r].pc = "responded"
  /\ requests[r].reply.kind = "resolve"
  /\ requests[r].response.kind = "returned"
  /\ ~IsErrorEnvelope(requests[r].response.body)

ResponseText(r) == requests[r].response.body.content[1].text
Contains(text, part) == \E i \in 1..Len(text) : HasAt(text, i, part)

\* what follows the first "--- End Info ---" line of a response text
AfterInfo(text) ==
  LET at == CHOOSE i \in 1..Len(text) :
              HasAt(text, i, EndInfo) /\ \A j \in 1..(i - 1) : ~HasAt(text, j, EndInfo)
  IN DropPrefix(text, at + Len(EndInfo) - 1)

\* lines first..last (0-based) of a document, after the blank line that
\* ends the info header
LinesAfterHeader(lines, first, last) ==
  <<"\n">> \o JoinLines(SubSeq(lines, first + 1, last + 1))

Given(r, key) == Get(requests[r].args, key) # Undefined
NumberOf(r, key) == Get(requests[r].args, key).v

\* C23: for a document of T lines, a 0-based offset o with 0 <= o < T and a
\* limit l >= 0, the content after the info header is exactly lines o up to
\* min(o + l, T) - 1; with no limit it is lines o up to T - 1, with a limit
\* and no offset the offset is 0; with o >= T no line is returned and the
\* status is "Out of range"; with neither argument it is the whole document.
C23_PageIsTheRequestedLines ==
  \A r \in RequestIds :
    ContentRead(r) =>
      LET document == requests[r].reply.value.v
          lines == SplitLines(document)
          T == Len(lines)
          o == IF Given(r, <<"o","f","f","s","e","t">>) THEN NumberOf(r, <<"o","f","f","s","e","t">>) ELSE 0
          l == IF Given(r, <<"l","i","m","i","t">>) THEN NumberOf(r, <<"l","i","m","i","t">>) ELSE T
          end == IF o + l < T THEN o + l ELSE T
          rest == AfterInfo(ResponseText(r))
      IN IF ~Given(r, <<"o","f","f","s","e","t">>) /\ ~Given(r, <<"l","i","m","i","t">>)
           THEN rest = <<"\n">> \o document
         ELSE IF o < 0 \/ l < 0 THEN TRUE
         ELSE IF o >= T
           THEN rest = <<>> /\ Contains(ResponseText(r), <<"S","t","a","t","u","s",":"," ","O","u","t"," ","o","f"," ","r","a","n","g","e">>)
         ELSE rest = LinesAfterHeader(lines, o, end - 1)

\* a page from the middle of a three-line document: offset 1, limit 1
C23_Witness ==
  \E r \in RequestIds :
    /\ ContentRead(r)
    /\ Len(SplitLines(requests[r].reply.value.v)) = 3
    /\ Given(r, <<"o","f","f","s","e","t">>) /\ NumberOf(r, <<"o","f","f","s","e","t">>) = 1
    /\ Given(r, <<"l","i","m","i","t">>) /\ NumberOf(r, <<"l","i","m","i","t">>) = 1
    /\ AfterInfo(ResponseText(r)) = <<"\n">> \o <<"l","1">>

\* an offset past the end of the document
C23_WitnessOutOfRange ==
  \E r \in RequestIds :
    /\ ContentRead(r)
    /\ Given(r, <<"o","f","f","s","e","t">>)
    /\ NumberOf(r, <<"o","f","f","s","e","t">>) >= Len(SplitLines(requests[r].reply.value.v))
    /\ Contains(ResponseText(r), <<"S","t","a","t","u","s",":"," ","O","u","t"," ","o","f"," ","r","a","n","g","e">>)

\* the text is a range header "a-b (showing n lines)" with b - a + 1 = n,
\* followed by n successive lines of the document
ConsistentPage(text, lines) ==
  \E a \in (0 - MaxPage - 2)..(MaxPage + 2), n \in 0..Len(lines), first \in 0..Len(lines) :
    /\ first + n <= Len(lines)
    /\ text = RangeInfo(Len(lines), a, a + n - 1, n)
                \o JoinLines(SubSeq(lines, first + 1, first + n))

\* C29: in every get_document_content response whose header reads
\* "Current Range: a-b (showing n lines)", n is the number of document lines
\* returned and b - a + 1 = n, for every integer offset and limit, zero,
\* large or negative.
C29_RangeHeaderCountsLines ==
  \A r \in RequestIds :
    (ContentRead(r) /\ Contains(ResponseText(r), <<"C","u","r","r","e","n","t"," ","R","a","n","g","e",":"," ">>)) =>
      ConsistentPage(ResponseText(r), SplitLines(requests[r].reply.value.v))

\* ---------------------------------------------------------------------
\* The arguments a tools/call request can carry: the router reads
\* request.params.arguments without looking at its type
\* ---------------------------------------------------------------------
CallerArguments ==
  {Undefined, Null, Bool(FALSE), Num(0), Str(<<>>), Obj(<<>>),
   Obj(<<Prop(<<"n","a","m","e">>, Str(<<"n">>))>>)}

NextArguments ==
  \/ \E r \in RequestIds, args \in CallerArguments : CallTool(r, CreateNotebookName, args)
  \/ \E r \in RequestIds : ExecuteSettles(r, SmallPool)

SpecArguments == InitServing /\ [][NextArguments]_vars

\* execute was invoked for request r
Executed(r) == requests[r].kind = "callTool" /\ requests[r].executes = 1

Absent(args) == args \in {Undefined, Null}

C24_WitnessAbsent ==
  \E r \in RequestIds :
    Executed(r) /\ requests[r].args = Undefined /\ requests[r].passed = Obj(<<>>)

\* ---------------------------------------------------------------------
\* Failures that are not Error objects: the workspace client rejects with a
\* string, a number, null, undefined or a plain object, and the handler's
\* promise rejects with the same value
\* ---------------------------------------------------------------------
FailurePool ==
  [values |-> {Undefined},
   messages |-> {<<"b","o","o","m">>},
   thrown |-> {Str(<<"o","o","p","s">>), Str(<<>>), Num(7), Num(0 - 3), Null, Undefined,
               Obj(<<>>), Obj(<<Prop(<<"c","o","d","e">>, Num(1))>>)}]

NextFailures ==
  \/ \E r \in RequestIds, name \in {CreateNotebookName, UpdateBlockName} :
       \E args \in ArgumentsFor(name) : CallTool(r, name, args)
  \/ \E r \in RequestIds : ExecuteSettles(r, FailurePool)

SpecFailures == InitServing /\ [][NextFailures]_vars

\* the string form JavaScript gives the values FailurePool rejects with
StringForm(value) ==
  CASE value = Str(<<"o","o","p","s">>) -> <<"o","o","p","s">>
    [] value = Str(<<>>) -> <<>>
    [] value = Num(7) -> <<"7">>
    [] value = Num(0 - 3) -> <<"-","3">>
    [] value = Null -> <<"n","u","l","l">>
    [] value = Undefined -> <<"u","n","d","e","f","i","n","e","d">>
    [] value.t = "object" -> <<"[","o","b","j","e","c","t"," ","O","b","j","e","c","t","]">>

\* execute of request r failed with a value that is not an Error
FailedWithValue(r) ==
  /\ Responded(r)
  /\ requests[r].executes = 1
  /\ requests[r].outcome.kind = "reject"
  /\ requests[r].outcome.error.t # "error"

\* C25: a handler failure whose value is not an Error (a string, a number,
\* null, undefined, a plain object) is answered with the error envelope
\* {isError: true, text: "Error: " + the value's string form}; the request
\* handler returns it, once, and throws nothing while building it.
C25_NonErrorFailureEnvelope ==
  \A r \in RequestIds :
    FailedWithValue(r) =>
      /\ requests[r].response.kind = "returned"
      /\ requests[r].response.body =
           [content |-> <<[type |-> "text",
                           text |-> <<"E","r","r","o","r",":"," ">> \o StringForm(requests[r].outcome.error)]>>,
            isError |-> TRUE]
      /\ requests[r].responses = 1
      /\ pc = "serving"

\* a rejection with a plain object and one with null were both answered
C25_Witness ==
  \E q, r \in RequestIds :
    /\ FailedWithValue(q) /\ requests[q].outcome.error = Obj(<<Prop(<<"c","o","d","e">>, Num(1))>>)
    /\ requests[q].response.body.content[1].text = <<"E","r","r","o","r",":"," ","[","o","b","j","e","c","t"," ","O","b","j","e","c","t","]">>
    /\ FailedWithValue(r) /\ requests[r].outcome.error = Null
    /\ requests[r].response.body.content[1].text = <<"E","r","r","o","r",":"," ","n","u","l","l">>

\* the body of the move request r has sent
MoveBody(r) == requests[r].call.params[1]

\* C26: a move_block call that supplies neither previous_id nor parent_id
\* ends in the error envelope of the handler's validation message and sends
\* no move; a call that supplies one or both sends exactly one move, which
\* carries the block id and the destination fields as supplied; the call
\* resolves to success: true only after the workspace has accepted the move.
C26_MoveNeedsADestination ==
  \A r \in RequestIds :
    IsCallOf(r, MoveBlockName) =>
      IF /\ ~Truthy(Get(requests[r].args, <<"p","r","e","v","i","o","u","s","_","i","d">>))
         /\ ~Truthy(Get(requests[r].args, <<"p","a","r","e","n","t","_","i","d">>))
        THEN RejectedUnsent(r, MustProvidePreviousOrParent)
        ELSE /\ SentOnce(r, "client.request /api/block/moveBlock")
             /\ Get(MoveBody(r), <<"i","d">>) = Get(requests[r].args, <<"b","l","o","c","k","_","i","d">>)
             /\ Get(MoveBody(r), <<"p","r","e","v","i","o","u","s","I","D">>) = Get(requests[r].args, <<"p","r","e","v","i","o","u","s","_","i","d">>)
             /\ Get(MoveBody(r), <<"p","a","r","e","n","t","I","D">>) = Get(requests[r].args, <<"p","a","r","e","n","t","_","i","d">>)
             /\ (requests[r].pc = "responded" /\ ~IsErrorEnvelope(requests[r].response.body)) =>
                  /\ Accepted(r)
                  /\ requests[r].outcome.value =
                       Obj(<<Prop(<<"s","u","c","c","e","s","s">>, Bool(TRUE)),
                             Prop(<<"b","l","o","c","k","_","i","d">>, Get(requests[r].args, <<"b","l","o","c","k","_","i","d">>))>>)

\* a move that named only a parent was accepted, one that named no
\* destination was rejected unsent
C26_Witness ==
  \E q, r \in RequestIds :
    /\ IsCallOf(q, MoveBlockName) /\ RejectedUnsent(q, MustProvidePreviousOrParent)
    /\ IsCallOf(r, MoveBlockName)
    /\ SentOnce(r, "client.request /api/block/moveBlock")
    /\ Get(requests[r].args, <<"p","r","e","v","i","o","u","s","_","i","d">>) = Undefined
    /\ Get(MoveBody(r), <<"p","a","r","e","n","t","I","D">>) = Str(<<"p">>)
    /\ requests[r].pc = "responded" /\ Accepted(r)
    /\ requests[r].outcome.kind = "resolve"

\* the workspace refused a move: the call ends in an error envelope
C26_WitnessRefused ==
  \E r \in RequestIds :
    /\ IsCallOf(r, MoveBlockName)
    /\ SentOnce(r, "client.request /api/block/moveBlock")
    /\ requests[r].pc = "responded" /\ Refused(r)
    /\ IsErrorEnvelope(requests[r].response.body)

\* ---------------------------------------------------------------------
\* Setting the daily note format: concurrent set_daily_note_format calls on
\* two notebooks, each a read of the configuration followed by a write
\* ---------------------------------------------------------------------
InitNotebook ==
  /\ pc = "serving"
  /\ handlers = <<SetDailyNoteFormatHandler(11)>>
  /\ registered = Len(handlers)
  /\ registry = handlers
  /\ context = StartupContext
  /\ wired = RequestKinds
  /\ requests = [r \in RequestIds |-> NoRequest]
  /\ history = NotObserved
  /\ notebooks = NotebookConfs

FormatCall(nb, template) ==
  Obj(<<Prop(<<"n","o","t","e","b","o","o","k","_","i","d">>, nb), Prop(<<"p","a","t","h","_","t","e","m","p","l","a","t","e">>, Str(template))>>)

FormatArguments == {FormatCall(nb, t) : nb \in NotebookIds, t \in {<<"/","a">>, <<"/","b">>}}

NextNotebook ==
  \/ \E r \in RequestIds, args \in FormatArguments :
       CallTool(r, SetDailyNoteFormatName, args)
  \/ \E r \in RequestIds : ExecuteSettles(r, SmallPool)

SpecNotebook == InitNotebook /\ [][NextNotebook]_vars

\* the fields of a configuration other than dailyNoteSavePath, in order
OtherFields(conf) == SelectSeq(conf.v, LAMBDA p : p.k # <<"d","a","i","l","y","N","o","t","e","S","a","v","e","P","a","t","h">>)

\* request r is a set_daily_note_format call for notebook nb whose write is
\* with the workspace
WritingTo(r, nb) ==
  /\ IsCallOf(r, SetDailyNoteFormatName)
  /\ requests[r].pc = "executing"
  /\ requests[r].call.method = "notebook.setNotebookConf"
  /\ Get(requests[r].args, <<"n","o","t","e","b","o","o","k","_","i","d">>) = nb

\* a step changes a configuration only for a write of some call to that
\* notebook, and then only its dailyNoteSavePath, to the template of the call
OnlyDailyNotePathChanges ==
  \A nb \in NotebookIds :
    notebooks'[nb] # notebooks[nb] =>
      /\ OtherFields(notebooks'[nb]) = OtherFields(notebooks[nb])
      /\ \E r \in RequestIds :
           /\ WritingTo(r, nb)
           /\ requests'[r].pc = "responded"
           /\ Get(notebooks'[nb], <<"d","a","i","l","y","N","o","t","e","S","a","v","e","P","a","t","h">>) = Get(requests[r].args, <<"p","a","t","h","_","t","e","m","p","l","a","t","e">>)

\* request r is reading the configuration in this state and the read fails
\* in the step
ReadFails(r) ==
  /\ IsCallOf(r, SetDailyNoteFormatName)
  /\ requests[r].pc = "executing"
  /\ requests[r].call.method = "notebook.getNotebookConf"
  /\ requests'[r] # requests[r]
  /\ requests'[r].reply.kind = "reject"

\* a failed read ends the call in an error envelope with no write sent
FailedReadWritesNothing ==
  \A r \in RequestIds :
    ReadFails(r) =>
      /\ requests'[r].pc = "responded"
      /\ requests'[r].call = requests[r].call
      /\ IsErrorEnvelope(requests'[r].response.body)
      /\ notebooks' = notebooks

\* C30: set_daily_note_format(nb, t) changes only the dailyNoteSavePath field
\* of the configuration of notebook nb: every other field of it and every
\* configuration of another notebook is left as it was, in any interleaving
\* of concurrent set_daily_note_format calls; when the read of the current
\* configuration fails, no write is sent and the call ends in an error
\* envelope.
C30_OnlyDailyNotePathChanges ==
  [][OnlyDailyNotePathChanges /\ FailedReadWritesNothing]_vars

\* two calls for notebook n1 with different templates were both accepted:
\* the other fields of n1, and notebook n2, are as they were
C30_Witness ==
  \E q, r \in RequestIds :
    /\ q # r
    /\ IsCallOf(q, SetDailyNoteFormatName) /\ IsCallOf(r, SetDailyNoteFormatName)
    /\ requests[q].args = FormatCall(Str(<<"n","1">>), <<"/","a">>)
    /\ requests[r].args = FormatCall(Str(<<"n","1">>), <<"/","b">>)
    /\ requests[q].pc = "responded" /\ requests[q].outcome.kind = "resolve"
    /\ requests[r].pc = "responded" /\ requests[r].outcome.kind = "resolve"
    /\ requests[q].call.params[2] # requests[r].call.params[2]
    /\ Get(requests[r].call.params[2], <<"d","a","i","l","y","N","o","t","e","S","a","v","e","P","a","t","h">>) = Str(<<"/","b">>)
    /\ notebooks[Str(<<"n","1">>)] # NotebookConfs[Str(<<"n","1">>)]
    /\ OtherFields(notebooks[Str(<<"n","1">>)]) = OtherFields(NotebookConfs[Str(<<"n","1">>)])
    /\ notebooks[Str(<<"n","2">>)] = NotebookConfs[Str(<<"n","2">>)]

\* two calls for notebook n1 have both read its configuration before either
\* has written
C30_WitnessConcurrent ==
  \E q, r \in RequestIds : q # r /\ WritingTo(q, Str(<<"n","1">>)) /\ WritingTo(r, Str(<<"n","1">>))

\* the read of the configuration failed: an error envelope, and the last
\* call the request sent is the read
C30_WitnessReadFails ==
  \E r \in RequestIds :
    /\ IsCallOf(r, SetDailyNoteFormatName)
    /\ requests[r].pc = "responded"
    /\ requests[r].call.method = "notebook.getNotebookConf"
    /\ IsErrorEnvelope(requests[r].response.body)
    /\ notebooks = NotebookConfs

\* ---------------------------------------------------------------------
\* Startup with the full list of createAllHandlers
\* ---------------------------------------------------------------------
InitStartup ==
  /\ pc = "registerHandlers"
  /\ handlers = createAllHandlers
  /\ registered = 0
  /\ registry = <<>>
  /\ context = StartupContext
  /\ wired = {}
  /\ requests = [r \in RequestIds |-> NoRequest]
  /\ history = NotObserved
  /\ notebooks = NotebookConfs

\* the calls made of the started server: its first and two of its later
\* tools whose execute is modelled, and a tool it does not have
StartupCalls ==
  {[name |-> GetDocumentContentName, args |-> Obj(<<Prop(<<"d","o","c","u","m","e","n","t","_","i","d">>, Str(<<"d">>))>>)],
   [name |-> CreateNotebookName, args |-> Obj(<<Prop(<<"n","a","m","e">>, Str(<<"n">>))>>)],
   [name |-> SetDailyNoteFormatName, args |-> FormatCall(Str(<<"n","1">>), <<"/","a">>)],
   [name |-> EchoName, args |-> Undefined]}

NextStartup ==
  \/ RegisterHandler
  \/ SetupRequestHandlers
  \/ \E r \in RequestIds : ListTools(r)
  \/ \E r \in RequestIds, c \in StartupCalls : CallTool(r, c.name, c.args)
  \/ \E r \in RequestIds : ExecuteSettles(r, SmallPool)

SpecStartup == InitStartup /\ [][NextStartup]_vars

\* C27: the handlers createAllHandlers builds have pairwise distinct names:
\* registerHandlers goes through the whole list without a duplicate-name
\* rejection, and once the server serves, the registry gives for each name
\* the handler of that name, tools/list advertises them all and a tools/call
\* of one of the names is dispatched to its handler.
C27_FullListRegisters ==
  /\ \A i, j \in 1..Len(handlers) : i # j => handlers[i].name # handlers[j].name
  /\ pc # "threw"
  /\ pc = "serving" =>
       /\ registered = Len(handlers)
       /\ \A i \in 1..Len(handlers) : RegistryGet(registry, handlers[i].name) = handlers[i]
  /\ \A r \in RequestIds :
       /\ requests[r].kind = "listTools" =>
            requests[r].response.body.tools =
              [i \in 1..Len(handlers) |->
                 [name |-> handlers[i].name, description |-> handlers[i].description,
                  inputSchema |-> handlers[i].inputSchema]]
       /\ requests[r].kind = "callTool" =>
            \A i \in 1..Len(handlers) :
              requests[r].name = handlers[i].name =>
                requests[r].handler = handlers[i].id /\ requests[r].executes = 1

\* the server serves with every handler of the list registered, and calls of
\* its first tool and of a later one have been answered
C27_Witness ==
  \E q, r \in RequestIds :
    /\ pc = "serving"
    /\ Len(registry) = Len(createAllHandlers)
    /\ registry[Len(registry)].name = <<"b","a","t","c","h","_","r","e","p","l","a","c","e","_","t","a","g">>
    /\ IsCallOf(q, GetDocumentContentName) /\ requests[q].pc = "responded"
    /\ requests[q].outcome.kind = "resolve"
    /\ IsCallOf(r, SetDailyNoteFormatName) /\ requests[r].pc = "responded"
    /\ requests[r].outcome.kind = "resolve"

\* the names a prompts/list response advertises
ListedPrompts(response) ==
  {response.body.prompts[i].name : i \in 1..Len(response.body.prompts)}

\* C28: the prompt catalog does not depend on the tool registry: every
\* prompts/list request is answered, whatever the registry holds, with the
\* same list of one prompt, siyuan-usage-guide; and a prompts/get request is
\* answered with messages if and only if its name is in that list.
C28_PromptCatalogFixed ==
  \A r \in RequestIds :
    /\ requests[r].kind = "listPrompts" =>
         /\ requests[r].pc = "responded"
         /\ requests[r].response.kind = "returned"
         /\ ListedPrompts(requests[r].response) = {<<"s","i","y","u","a","n","-","u","s","a","g","e","-","g","u","i","d","e">>}
         /\ Len(requests[r].response.body.prompts) = 1
         /\ \A q \in RequestIds :
              requests[q].kind = "listPrompts" => requests[q].response = requests[r].response
    /\ requests[r].kind = "getPrompt" =>
         ((/\ requests[r].response.kind = "returned"
           /\ requests[r].response.body.messages # <<>>)
          <=> requests[r].name \in ListedPrompts(Returned(ListPromptsResult)))

\* with a tool registered, the catalog was listed and its prompt was got
C28_Witness ==
  \E q, r \in RequestIds :
    /\ registry # <<>>
    /\ requests[q].kind = "listPrompts"
    /\ requests[r].kind = "getPrompt"
    /\ requests[r].name \in ListedPrompts(requests[q].response)
    /\ requests[r].response.kind = "returned"

\* with no tool registered, the catalog was listed and a name outside it
\* was refused
C28_WitnessEmptyRegistry ==
  \E q, r \in RequestIds :
    /\ registry = <<>>
    /\ requests[q].kind = "listPrompts"
    /\ Len(requests[q].response.body.prompts) = 1
    /\ requests[r].kind = "getPrompt"
    /\ requests[r].name \notin ListedPrompts(requests[q].response)
    /\ requests[r].response.kind = "thrown"

====
